---- MODULE Spec2Model ----
(***************************************************************************)
(* Transfer and synchronisation core of comfy-fs:                          *)
(*   - ParallelDownloader (src/src/download.rs): the buffered-unordered     *)
(*     download engine, its per-item worker and download_directory;         *)
(*   - the Sync subcommand of main (src/src/main.rs) that drives it;        *)
(*   - ConnectionManager (src/src/connection.rs): SMB-first probing with    *)
(*     FTP fallback, and disconnect.                                        *)
(* The shared handle Arc<Mutex<Box<dyn FileServerClient>>> is the variable  *)
(* lock (its holder); backend calls are suspension points and return a      *)
(* result chosen by the environment.                                        *)
(***************************************************************************)
EXTENDS Integers, Sequences, FiniteSets, TLC

\* ------------------------------------------------------------- bounds
\* largest batch handed to download_files directly
MaxItems == 3
\* largest concurrency cap given to ParallelDownloader::new
MaxCap == 2
MaxAbandoned == 1
\* number of distinct file names a directory may hold
MaxNames == 2
\* number of backends a connection manager may publish in one run
MaxHandles == 3
\* number of lines a server sends for one listing
MaxLines == 1
\* length of the file names and patterns given to glob_match
MaxGlobLen == 3

\* ---------------------------------------------------- program constants
\* ParallelDownloader::new(client.clone(), 4) in the Sync subcommand
SyncCap == 4
\* ParallelDownloader::new(client, 4) in the wildcard Download subcommand
WildcardCap == 4
\* FtpClient::parse_list_line: if parts.len() < 9 { return None; }
FtpMinParts == 9
\* SmbClient::parse_list_line: the name is line[..35]
NameColumn == 35

VARIABLES
    \* ---- ParallelDownloader / main
    mode,            \* entry point: "files" | "directory" | "sync", or another
                     \* subcommand: "upload" | "wildcard" | "single" | "list"
                     \* | "config"
    phase,           \* position of the calling task
    outcome,         \* collection-level result of the entry point
    max_concurrent,  \* ParallelDownloader.max_concurrent
    files,           \* the batch given to download_files
    next_item,       \* position of stream::iter(files)
    in_progress,     \* BufferUnordered.in_progress_queue (item indices)
    pc,              \* position of each download_single_file future
    results,         \* the collected Vec<Result<()>>
    lock,            \* holder of the handle's tokio Mutex
    remote_files,    \* result of list_files
    local_files,     \* HashMap name -> size of the local scan
    to_upload,       \* Sync: the upload list
    successful,      \* Sync / Upload: count of successful uploads
    failed,          \* Upload: count of failed uploads
    error,           \* the error main returns ("none" while there is none)
    calls,           \* operations invoked on the handle: <<op, path>>
    remote_fs,       \* the server's directory: name -> entry
    local_fs,        \* the local directory: name -> entry
    prev_run,        \* Sync: summary of the previous run (Option)
    \* ---- ConnectionManager
    config,          \* ConnectionManager.config
    cm_client,       \* ConnectionManager.client (Option<Arc<..>>)
    cm_pc,           \* position inside connect / disconnect
    cm_ret,          \* value returned by the last call
    probes,          \* backend connect() calls made by the current connect
    stderr,          \* eprintln! lines of the current connect
    next_handle,     \* identity of the next Arc::new
    \* ---- FtpClient / SmbClient, one operation
    be_kind,         \* "ftp" | "smb"
    be_op,           \* the operation to run ("list", "download", ...), then
                     \* "done"
    be_path,         \* list_files: the requested path
    be_lines,        \* list_files: the lines the server sends
    be_remote,       \* download_file: content of the remote file (Option)
    be_local,        \* download_file: parent directory and content of local_path
    be_before,       \* be_local when the operation was called
    be_ret,          \* what the operation returned
    be_log,          \* the steps the operation performed, in order
    be_stderr,       \* SmbClient: what the child process writes to stderr
    \* ---- utils / Config, one call sequence of library functions
    fn_op,           \* the functions under call: "glob_match" | "serde"
    fn_args,         \* their inputs
    fn_ret,          \* the values returned so far, in order
    \* ---- FileBrowser
    br_pc,           \* position of FileBrowser::run: "none" | "new" | "running"
                     \* | "returned" | "panicked", and inside load_directory
                     \* "first_wait" | "first_list" | "wait" | "list"
    current_path,    \* FileBrowser.current_path, as its path components
    entries,         \* FileBrowser.entries
    selected,        \* FileBrowser.selected
    sort_mode,       \* FileBrowser.sort_mode
    reverse_sort,    \* FileBrowser.reverse_sort
    selected_files,  \* FileBrowser.selected_files
    \* ---- what outlives its caller
    detached,        \* backend calls whose caller was dropped while they ran:
                     \* the blocking task or the child process goes on
    user_guards      \* identities of the handles whose Mutex a task that was
                     \* given them holds

dlVars == <<mode, phase, outcome, max_concurrent, files, next_item, in_progress,
            pc, results, remote_files, local_files, to_upload, successful,
            failed, error, calls, remote_fs, local_fs, prev_run>>
fsVars == <<remote_fs, local_fs>>
cliVars == <<failed, error, prev_run>>
cmVars == <<config, cm_client, cm_pc, cm_ret, probes, stderr, next_handle>>
beVars == <<be_kind, be_op, be_path, be_lines, be_remote, be_local, be_before,
            be_ret, be_log, be_stderr>>
fnVars == <<fn_op, fn_args, fn_ret>>
brVars == <<br_pc, current_path, entries, selected, sort_mode, reverse_sort,
            selected_files>>
sideVars == <<detached, user_guards>>
vars == <<dlVars, lock, cmVars, beVars, fnVars, brVars, sideVars>>

\* ------------------------------------------------------------ helpers
Names == 1..MaxNames
Sizes == {1, 2}

\* the lengths a file can have: a transfer that was cut short leaves an
\* empty file, which a later listing or scan reports with size 0
Lengths == {0} \cup Sizes

NoHolder == <<>>
MainTask == <<"main">>
Worker(i) == <<"worker", i>>

\* RemoteFile (client/mod.rs): modified is not modelled
RemoteFile(n, s, d) == [name |-> n, path |-> <<"remote", n>>, size |-> s, is_dir |-> d]

Entries == {RemoteFile(n, s, FALSE) : n \in Names, s \in Lengths}
               \cup {RemoteFile(n, 0, TRUE) : n \in Names}

\* directory listings: every name at most once, sent in ascending or in
\* descending order of the names (with two names, in any order)
Listings ==
    {l \in UNION {[1..k -> Entries] : k \in 0..MaxNames} :
        \/ \A i, j \in DOMAIN l : i < j => l[i].name < l[j].name
        \/ \A i, j \in DOMAIN l : i < j => l[i].name > l[j].name}

\* results of the local scan: name -> size for the regular files present
LocalScans == UNION {[S -> Lengths] : S \in SUBSET Names}

\* all orders in which a set can be iterated
Orders(S) ==
    {s \in [1..Cardinality(S) -> S] : \A x \in S : \E i \in DOMAIN s : s[i] = x}

Item(remote, local) == [remote |-> remote, local |-> local]

\* a path is the sequence of its '/'-separated segments, so that a trailing
\* '/' shows as a final empty segment; the last segment is the file name
FileName(path) == path[Len(path)]

\* str::trim_end_matches('/')
RECURSIVE TrimEndSlash(_)
TrimEndSlash(path) ==
    IF path /= <<>> /\ path[Len(path)] = ""
    THEN TrimEndSlash(SubSeq(path, 1, Len(path) - 1))
    ELSE path

\* the remote directory argument of Sync, written with a trailing '/'
RemoteDirArg == <<"remote", "">>

\* directory contents: a regular file with its length, or a subdirectory
RegularFile(s) == [is_dir |-> FALSE, size |-> s]
Directory == [is_dir |-> TRUE, size |-> 0]
FsStates ==
    UNION {[S -> {RegularFile(s) : s \in Sizes} \cup {Directory}] :
              S \in SUBSET Names}

\* the local directory before the first run: its files have one length,
\* which a remote file of the same name may or may not share
LocalFsStates ==
    {fs \in FsStates : \A n \in DOMAIN fs : fs[n].size <= 1}

IsRegular(fs, n) == n \in DOMAIN fs /\ ~fs[n].is_dir
IsDirectory(fs, n) == n \in DOMAIN fs /\ fs[n].is_dir

\* mutant: the transfer reports success and writes nothing
PutNothing(fs, n, e) == fs

\* a file is created or truncated and written
Put(fs, n, e) == [x \in DOMAIN fs \cup {n} |-> IF x = n THEN e ELSE fs[x]]

\* the local directory after a download_file that failed: as it was, or
\* with the file created or truncated and holding what was written: less
\* than the remote file when write_all (FtpClient) or smbclient's get
\* stopped short, all of it when smbclient wrote the file and then exited
\* with a non-zero status
FailedDownloadLeaves(lfs, rfs, remote, local) ==
    {lfs} \cup (IF IsRegular(rfs, remote) /\ ~IsDirectory(lfs, local)
                THEN {Put(lfs, local, RegularFile(n)) :
                          n \in 0..rfs[remote].size}
                ELSE {})

\* the remote directory after an upload_file that failed: as it was, or,
\* when the local file was read and the transfer began, with the file
\* created or truncated on the server and holding what arrived: less than
\* the local file when the transfer was cut short, all of it when the error
\* is that of ftp.quit()? after put_file went through
FailedUploadLeaves(rfs, lfs, remote, local) ==
    {rfs} \cup (IF IsRegular(lfs, local) /\ ~IsDirectory(rfs, remote)
                THEN {Put(rfs, remote, RegularFile(n)) :
                          n \in 0..lfs[local].size}
                ELSE {})

\* the listing a server sends for its directory: one entry per name
IsListingOf(l, fs) ==
    /\ Len(l) = Cardinality(DOMAIN fs)
    /\ \A k \in DOMAIN l :
          /\ l[k].name \in DOMAIN fs
          /\ l[k].is_dir = fs[l[k].name].is_dir
          /\ l[k].size = fs[l[k].name].size

\* what read_dir yields for the regular files: name -> metadata.len()
RegularFilesOf(fs) ==
    [n \in {x \in DOMAIN fs : ~fs[x].is_dir} |-> fs[n].size]

Called(op, path) == calls' = calls \cup {<<op, path>>}

CountFailed(rs) == Cardinality({k \in DOMAIN rs : ~rs[k].ok})

\* ------------------------------------------------- the handle's Mutex
\* client.lock().await: completes only when no task holds the guard
TryLock(t) == lock = NoHolder /\ lock' = t

\* drop(client_guard), explicit or at the end of the guard's scope
DropGuard == lock' = NoHolder

\* ------------------------------------------------- ParallelDownloader
\* download_files: the stream over the batch is built, nothing is polled yet
EnterEngine(batch, cap) ==
    /\ files' = batch
    /\ max_concurrent' = cap
    /\ next_item' = 1
    /\ in_progress' = {}
    /\ pc' = [i \in 1..Len(batch) |-> "new"]
    /\ results' = <<>>
    /\ phase' = "engine"

\* mutant: the fill loop takes no notice of the cap
CanAdmitUncapped ==
    /\ phase = "engine"
    /\ next_item <= Len(files)

\* mutant: the fill loop admits one future more than the cap
CanAdmitOneMore ==
    /\ phase = "engine"
    /\ next_item <= Len(files)
    /\ Cardinality(in_progress) <= max_concurrent

\* BufferUnordered::poll_next, first loop:
\*   while in_progress_queue.len() < max { poll the stream, push the future }
CanAdmit ==
    /\ phase = "engine"
    /\ next_item <= Len(files)
    /\ Cardinality(in_progress) < max_concurrent

\* the in-progress futures are polled only after the fill loop has stopped
Polled(i) ==
    /\ phase = "engine"
    /\ i \in in_progress
    /\ ~CanAdmit

\* mutant: the outcomes are kept in the order of submission
CollectedInOrder(rs, r) ==
    LET before == SelectSeq(rs, LAMBDA x : x.item < r.item)
        after == SelectSeq(rs, LAMBDA x : x.item > r.item)
    IN  before \o <<r>> \o after

\* mutant: only the successes are collected
CollectedOkOnly(rs, r) == IF r.ok THEN Append(rs, r) ELSE rs

\* .collect::<Vec<_>>(): every item the stream yields is pushed
Collected(rs, r) == Append(rs, r)

\* mutant: the vector is collected into a Result, failing on the first Err
BatchOutcomeFailFast(rs) == IF CountFailed(rs) > 0 THEN "err" ELSE "ok"

\* Ok(results)
BatchOutcome(rs) == "ok"

\* a download_single_file future finishes: its Result joins the vector
Complete(i, ok) ==
    /\ pc' = [pc EXCEPT ![i] = IF ok THEN "ok" ELSE "err"]
    /\ in_progress' = in_progress \ {i}
    /\ results' = Collected(results, [item |-> i, ok |-> ok])

StartFiles ==
    /\ mode = "files"
    /\ phase = "start"
    /\ EnterEngine(files, max_concurrent)
    /\ UNCHANGED <<mode, outcome, lock, remote_files, local_files, to_upload,
                   successful, cmVars, fsVars, cliVars, calls>>
    /\ UNCHANGED <<beVars, fnVars, brVars, sideVars>>

\* mutant: the future goes straight to the download, without get_file_size
AdmitSkipsSize ==
    /\ CanAdmit
    /\ in_progress' = in_progress \cup {next_item}
    /\ pc' = [pc EXCEPT ![next_item] = "wait_download"]
    /\ next_item' = next_item + 1
    /\ UNCHANGED <<mode, phase, outcome, max_concurrent, files, results, lock,
                   remote_files, local_files, to_upload, successful, cmVars,
                   fsVars, cliVars, calls, beVars, fnVars, brVars, sideVars>>

\* the stream yields the next item: its future is created and pushed
Admit ==
    /\ CanAdmit
    /\ in_progress' = in_progress \cup {next_item}
    /\ pc' = [pc EXCEPT ![next_item] = "wait_size"]
    /\ next_item' = next_item + 1
    /\ UNCHANGED <<mode, phase, outcome, max_concurrent, files, results, lock,
                   remote_files, local_files, to_upload, successful, cmVars, fsVars, cliVars, calls>>
    /\ UNCHANGED <<beVars, fnVars, brVars, sideVars>>

\* let mut client_guard = client.lock().await;  (before get_file_size)
AcquireSize(i) ==
    /\ Polled(i)
    /\ pc[i] = "wait_size"
    /\ TryLock(Worker(i))
    /\ pc' = [pc EXCEPT ![i] = "size"]
    /\ Called("size", files[i].remote)
    /\ UNCHANGED <<mode, phase, outcome, max_concurrent, files, next_item,
                   in_progress, results, remote_files, local_files, to_upload,
                   successful, cmVars, fsVars, cliVars>>
    /\ UNCHANGED <<beVars, fnVars, brVars, sideVars>>

\* mutant: the guard is dropped on the success path only
SizeReturnKeepsGuard(i) ==
    /\ Polled(i)
    /\ pc[i] = "size"
    /\ \/ /\ pc' = [pc EXCEPT ![i] = "mkdir"]
          /\ DropGuard
          /\ UNCHANGED <<in_progress, results>>
       \/ /\ Complete(i, FALSE)
          /\ lock' = lock
    /\ UNCHANGED <<mode, phase, outcome, max_concurrent, files, next_item,
                   remote_files, local_files, to_upload, successful, cmVars, fsVars, cliVars, calls>>
    /\ UNCHANGED <<beVars, fnVars, brVars, sideVars>>

\* get_file_size(..).await? ; drop(client_guard)
SizeReturn(i) ==
    /\ Polled(i)
    /\ pc[i] = "size"
    /\ \/ /\ pc' = [pc EXCEPT ![i] = "mkdir"]
          /\ DropGuard
          /\ UNCHANGED <<in_progress, results>>
       \/ /\ Complete(i, FALSE)
          /\ DropGuard
    /\ UNCHANGED <<mode, phase, outcome, max_concurrent, files, next_item,
                   remote_files, local_files, to_upload, successful, cmVars, fsVars, cliVars, calls>>
    /\ UNCHANGED <<beVars, fnVars, brVars, sideVars>>

\* tokio::fs::create_dir_all(parent).await?   (no guard is held here)
MkdirReturn(i) ==
    /\ Polled(i)
    /\ pc[i] = "mkdir"
    /\ \/ /\ pc' = [pc EXCEPT ![i] = "wait_download"]
          /\ UNCHANGED <<in_progress, results>>
       \/ Complete(i, FALSE)
    /\ UNCHANGED <<mode, phase, outcome, max_concurrent, files, next_item, lock,
                   remote_files, local_files, to_upload, successful, cmVars, fsVars, cliVars, calls>>
    /\ UNCHANGED <<beVars, fnVars, brVars, sideVars>>

\* let mut client_guard = client.lock().await;  (before download_file)
AcquireDownload(i) ==
    /\ Polled(i)
    /\ pc[i] = "wait_download"
    /\ TryLock(Worker(i))
    /\ pc' = [pc EXCEPT ![i] = "download"]
    /\ Called("download", files[i].remote)
    /\ UNCHANGED <<mode, phase, outcome, max_concurrent, files, next_item,
                   in_progress, results, remote_files, local_files, to_upload,
                   successful, cmVars, fsVars, cliVars>>
    /\ UNCHANGED <<beVars, fnVars, brVars, sideVars>>

\* download_file(..).await? ; Ok(()) -- the guard is dropped on return
DownloadReturn(i) ==
    /\ Polled(i)
    /\ pc[i] = "download"
    /\ \/ /\ IsRegular(remote_fs, FileName(files[i].remote))
          /\ ~IsDirectory(local_fs, FileName(files[i].local))
          /\ Complete(i, TRUE)
          /\ local_fs' = Put(local_fs, FileName(files[i].local),
                             remote_fs[FileName(files[i].remote)])
       \/ /\ Complete(i, FALSE)
          /\ local_fs' \in FailedDownloadLeaves(local_fs, remote_fs,
                                                FileName(files[i].remote),
                                                FileName(files[i].local))
    /\ DropGuard
    /\ UNCHANGED <<mode, phase, outcome, max_concurrent, files, next_item,
                   remote_files, local_files, to_upload, successful, cmVars, remote_fs, cliVars, calls>>
    /\ UNCHANGED <<beVars, fnVars, brVars, sideVars>>

\* mutant: download_files returns as soon as the stream is exhausted
FinishBeforeDrained ==
    /\ phase = "engine"
    /\ next_item > Len(files)
    /\ IF mode = "sync"
       THEN phase' = "uploads" /\ outcome' = outcome
       ELSE phase' = "returned" /\ outcome' = BatchOutcome(results)
    /\ UNCHANGED <<mode, max_concurrent, files, next_item, in_progress, pc,
                   results, lock, remote_files, local_files, to_upload,
                   successful, cmVars, fsVars, cliVars, calls, beVars, fnVars, brVars, sideVars>>

\* BufferUnordered::poll_next returns None: the queue is empty and the
\* stream, polled because the queue is below the cap, is exhausted
Finish ==
    /\ phase = "engine"
    /\ in_progress = {}
    /\ next_item > Len(files)
    /\ Cardinality(in_progress) < max_concurrent
    /\ IF mode = "sync"
       THEN \* let results = downloader.download_files(to_download).await?;
            IF BatchOutcome(results) = "ok"
            THEN phase' = "uploads" /\ outcome' = outcome /\ error' = error
            ELSE phase' = "returned" /\ outcome' = "err"
                    /\ error' = "download_files failed"
       ELSE /\ phase' = "returned"
            /\ outcome' = BatchOutcome(results)
            /\ error' = IF BatchOutcome(results) = "ok" THEN error
                        ELSE "download_files failed"
    /\ UNCHANGED <<mode, max_concurrent, files, next_item, in_progress, pc,
                   results, lock, remote_files, local_files, to_upload,
                   successful, cmVars, fsVars, failed, prev_run, calls>>
    /\ UNCHANGED <<beVars, fnVars, brVars, sideVars>>


\* download_directory: files.into_iter().filter(|f| !f.is_dir)
\*                          .map(|f| (f.path, local_dir.join(&f.name)))
IsFile(f) == ~f.is_dir

\* mutant: the directory entries are submitted too
DownloadListUnfiltered(listing) ==
    [k \in DOMAIN listing |->
        Item(listing[k].path, <<"local", listing[k].name>>)]

DownloadList(listing) ==
    LET kept == SelectSeq(listing, IsFile)
    IN  [k \in DOMAIN kept |-> Item(kept[k].path, <<"local", kept[k].name>>)]

\* mutant: only the files that are absent locally are fetched
ToDownloadMissingOnly(rf, lf) ==
    LET Wanted(f) == ~f.is_dir /\ f.name \notin DOMAIN lf
        kept == SelectSeq(rf, Wanted)
    IN  [k \in DOMAIN kept |-> Item(kept[k].path, <<"local", kept[k].name>>)]

\* mutant: directories are not filtered out of the remote listing
ToDownloadWithDirs(rf, lf) ==
    LET Wanted(f) ==
            IF f.name \in DOMAIN lf THEN lf[f.name] /= f.size ELSE TRUE
        kept == SelectSeq(rf, Wanted)
    IN  [k \in DOMAIN kept |-> Item(kept[k].path, <<"local", kept[k].name>>)]

\* Sync: remote files that are absent locally or differ in size
ToDownload(rf, lf) ==
    LET Wanted(f) ==
            /\ ~f.is_dir
            /\ IF f.name \in DOMAIN lf THEN lf[f.name] /= f.size ELSE TRUE
        kept == SelectSeq(rf, Wanted)
    IN  [k \in DOMAIN kept |-> Item(kept[k].path, <<"local", kept[k].name>>)]

\* Sync: remote_names, the names of the non-directory remote entries
RemoteNames(rf) == {rf[k].name : k \in {j \in DOMAIN rf : ~rf[j].is_dir}}

\* mutant: a local file whose size differs from the remote one is uploaded
ToUploadNamesOrDiffering(rf, lf) ==
    {n \in DOMAIN lf :
        \A k \in DOMAIN rf :
            rf[k].is_dir \/ rf[k].name /= n \/ rf[k].size /= lf[n]}

\* mutant: every local file is uploaded
ToUploadNamesAll(rf, lf) == DOMAIN lf

\* Sync: local files whose name is not among remote_names
ToUploadNames(rf, lf) == {n \in DOMAIN lf : n \notin RemoteNames(rf)}

\* let mut client_guard = client.lock().await;  (before list_files)
LockForList ==
    /\ mode \in {"directory", "sync"}
    /\ phase = "start"
    /\ TryLock(MainTask)
    /\ phase' = "list"
    /\ Called("list", RemoteDirArg)
    /\ UNCHANGED <<mode, outcome, max_concurrent, files, next_item, in_progress,
                   pc, results, remote_files, local_files, to_upload, successful,
                   cmVars, fsVars, cliVars>>
    /\ UNCHANGED <<beVars, fnVars, brVars, sideVars>>

\* list_files(..).await? ; drop(client_guard)
ListReturn ==
    /\ phase = "list"
    /\ \/ /\ phase' = "returned"
          /\ outcome' = "err"
          /\ error' = "list_files failed"
          /\ DropGuard
          /\ UNCHANGED <<max_concurrent, files, next_item, in_progress, pc,
                         results, remote_files>>
       \/ \E l \in Listings :
            /\ IsListingOf(l, remote_fs)
            /\ remote_files' = l
            /\ error' = error
            /\ DropGuard
            /\ outcome' = outcome
            /\ IF mode = "directory"
               THEN EnterEngine(DownloadList(l), max_concurrent)
               ELSE /\ phase' = "scan"
                    /\ UNCHANGED <<max_concurrent, files, next_item, in_progress,
                                   pc, results>>
    /\ UNCHANGED <<mode, local_files, to_upload, successful, cmVars, fsVars, failed, prev_run, calls>>
    /\ UNCHANGED <<beVars, fnVars, brVars, sideVars>>

\* Sync: read_dir of an existing local directory, or create_dir_all
ScanLocal ==
    /\ phase = "scan"
    /\ \/ /\ phase' = "returned"
          /\ outcome' = "err"
          /\ error' = "local scan failed"
          /\ local_files' = local_files
       \/ \E scan \in LocalScans :
            /\ scan = RegularFilesOf(local_fs)
            /\ local_files' = scan
            /\ error' = error
            /\ phase' = "plan"
            /\ outcome' = outcome
    /\ UNCHANGED <<mode, max_concurrent, files, next_item, in_progress, pc,
                   results, lock, remote_files, to_upload, successful, cmVars, fsVars, failed, prev_run, calls>>
    /\ UNCHANGED <<beVars, fnVars, brVars, sideVars>>

\* Sync: if !to_download.is_empty() { downloader.download_files(..).await? }
PlanDownloads ==
    /\ phase = "plan"
    /\ LET to_download == ToDownload(remote_files, local_files)
       IN  IF to_download /= <<>>
           THEN EnterEngine(to_download, SyncCap)
           ELSE /\ phase' = "uploads"
                /\ UNCHANGED <<max_concurrent, files, next_item, in_progress,
                               pc, results>>
    /\ UNCHANGED <<mode, outcome, lock, remote_files, local_files, to_upload,
                   successful, cmVars, fsVars, cliVars, calls>>
    /\ UNCHANGED <<beVars, fnVars, brVars, sideVars>>

\* Sync: to_upload is filled by iterating the HashMap local_files
PlanUploads ==
    /\ phase = "uploads"
    /\ \E order \in Orders(ToUploadNames(remote_files, local_files)) :
         /\ to_upload' = [k \in DOMAIN order |->
                            Item(Append(TrimEndSlash(RemoteDirArg), order[k]),
                                 <<"local", order[k]>>)]
         /\ IF order = <<>>
            THEN phase' = "returned" /\ outcome' = "ok"
            ELSE phase' = "upload_wait" /\ outcome' = outcome
    /\ successful' = 0
    /\ UNCHANGED <<mode, max_concurrent, files, next_item, in_progress, pc,
                   results, lock, remote_files, local_files, cmVars, fsVars, cliVars, calls>>
    /\ UNCHANGED <<beVars, fnVars, brVars, sideVars>>

\* Sync upload loop: let mut client_guard = client.lock().await;
UploadAcquire ==
    /\ phase = "upload_wait"
    /\ TryLock(MainTask)
    /\ phase' = "upload"
    /\ Called("upload", to_upload[1].remote)
    /\ UNCHANGED <<mode, outcome, max_concurrent, files, next_item, in_progress,
                   pc, results, remote_files, local_files, to_upload, successful,
                   cmVars, fsVars, cliVars>>
    /\ UNCHANGED <<beVars, fnVars, brVars, sideVars>>

\* mutant: upload_file(..).await? -- the first failure ends the run
UploadReturnAborts ==
    /\ phase = "upload"
    /\ \/ /\ IsRegular(local_fs, FileName(to_upload[1].local))
          /\ ~IsDirectory(remote_fs, FileName(to_upload[1].remote))
          /\ successful' = successful + 1
          /\ remote_fs' = Put(remote_fs, FileName(to_upload[1].remote),
                              local_fs[FileName(to_upload[1].local)])
          /\ to_upload' = Tail(to_upload)
          /\ IF Tail(to_upload) = <<>>
             THEN phase' = "returned" /\ outcome' = "ok"
             ELSE phase' = "upload_wait" /\ outcome' = outcome
          /\ error' = error
       \/ /\ phase' = "returned"
          /\ outcome' = "err"
          /\ error' = "upload_file failed"
          /\ remote_fs' \in FailedUploadLeaves(remote_fs, local_fs,
                                               FileName(to_upload[1].remote),
                                               FileName(to_upload[1].local))
          /\ UNCHANGED <<successful, to_upload>>
    /\ DropGuard
    /\ UNCHANGED <<mode, max_concurrent, files, next_item, in_progress, pc,
                   results, remote_files, local_files, cmVars, local_fs, failed,
                   prev_run, calls, beVars, fnVars, brVars, sideVars>>

\* Sync upload loop: upload_file(..).await.is_ok(); the guard is dropped
\* at the end of the iteration
UploadReturn ==
    /\ phase = "upload"
    /\ \/ /\ IsRegular(local_fs, FileName(to_upload[1].local))
          /\ ~IsDirectory(remote_fs, FileName(to_upload[1].remote))
          /\ successful' = successful + 1
          /\ remote_fs' = Put(remote_fs, FileName(to_upload[1].remote),
                              local_fs[FileName(to_upload[1].local)])
       \/ /\ successful' = successful
          /\ remote_fs' \in FailedUploadLeaves(remote_fs, local_fs,
                                               FileName(to_upload[1].remote),
                                               FileName(to_upload[1].local))
    /\ DropGuard
    /\ to_upload' = Tail(to_upload)
    /\ IF Tail(to_upload) = <<>>
       THEN phase' = "returned" /\ outcome' = "ok"
       ELSE phase' = "upload_wait" /\ outcome' = outcome
    /\ UNCHANGED <<mode, max_concurrent, files, next_item, in_progress, pc,
                   results, remote_files, local_files, cmVars, local_fs, cliVars, calls>>
    /\ UNCHANGED <<beVars, fnVars, brVars, sideVars>>

\* the backend call the holder of the guard is inside of
CallInFlight ==
    {[op |-> pc[i], remote |-> files[i].remote, local |-> files[i].local] :
        i \in {j \in DOMAIN pc : pc[j] \in {"size", "download"}}}
      \cup (IF phase = "list"
            THEN {[op |-> "list", remote |-> RemoteDirArg, local |-> <<>>]}
            ELSE {})
      \cup (IF phase = "upload"
            THEN {[op |-> "upload", remote |-> to_upload[1].remote,
                   local |-> to_upload[1].local]}
            ELSE {})

\* the calling task is dropped at a suspension point: every local of the
\* entry point and of the in-progress futures is dropped, guards included;
\* the backend call that was in flight goes on without a caller: FtpClient
\* runs it in spawn_blocking, SmbClient in a child process without
\* kill_on_drop, and neither is stopped when the future that awaits it is
\* dropped
Cancel ==
    /\ phase \notin {"returned", "cancelled"}
    /\ phase' = "cancelled"
    /\ detached' = detached \cup CallInFlight
    /\ lock' = IF lock \in {MainTask} \cup {Worker(i) : i \in DOMAIN pc}
               THEN NoHolder ELSE lock
    /\ files' = <<>>
    /\ next_item' = 1
    /\ in_progress' = {}
    /\ pc' = <<>>
    /\ results' = <<>>
    /\ remote_files' = <<>>
    /\ local_files' = <<>>
    /\ to_upload' = <<>>
    /\ successful' = 0
    /\ UNCHANGED <<mode, outcome, max_concurrent, cmVars, fsVars, cliVars, calls>>
    /\ UNCHANGED <<beVars, fnVars, brVars, user_guards>>

\* a call that lost its caller comes to its end: a download writes the
\* local file or fails, an upload stores the remote file or fails, and
\* nobody receives the result
DetachedReturn ==
    /\ \E d \in detached :
         /\ detached' = detached \ {d}
         /\ IF d.op = "download"
            THEN /\ \/ /\ IsRegular(remote_fs, FileName(d.remote))
                      /\ ~IsDirectory(local_fs, FileName(d.local))
                      /\ local_fs' = Put(local_fs, FileName(d.local),
                                         remote_fs[FileName(d.remote)])
                   \/ local_fs' \in FailedDownloadLeaves(local_fs, remote_fs,
                                                         FileName(d.remote),
                                                         FileName(d.local))
                 /\ remote_fs' = remote_fs
            ELSE IF d.op = "upload"
            THEN /\ remote_fs' \in FailedUploadLeaves(remote_fs, local_fs,
                                                        FileName(d.remote),
                                                        FileName(d.local))
                 /\ local_fs' = local_fs
            ELSE UNCHANGED fsVars
    /\ UNCHANGED <<mode, phase, outcome, max_concurrent, files, next_item,
                   in_progress, pc, results, lock, remote_files, local_files,
                   to_upload, successful, cmVars, cliVars, calls>>
    /\ UNCHANGED <<beVars, fnVars, brVars, user_guards>>

\* the caller whose download_files future was dropped calls download_files
\* again on the same handle, while calls it abandoned may still be running
CallAgain ==
    /\ mode = "files"
    /\ phase = "cancelled"
    /\ Cardinality(detached) <= MaxAbandoned
    /\ phase' = "start"
    /\ files' \in {[i \in 1..n |-> Item(<<"remote", i>>, <<"local", i>>)] :
                     n \in 1..MaxItems}
    /\ calls' = {}
    /\ UNCHANGED <<mode, outcome, max_concurrent, next_item, in_progress, pc,
                   results, lock, remote_files, local_files, to_upload,
                   successful, cmVars, fsVars, failed, prev_run, error>>
    /\ UNCHANGED <<beVars, fnVars, brVars, sideVars>>

\* the Sync subcommand is run again on the same two directories; nothing
\* but the two trees is carried over
SecondRun ==
    /\ mode = "sync"
    /\ phase = "returned"
    /\ prev_run = <<>>
    /\ LET uploads == Cardinality(ToUploadNames(remote_files, local_files))
       IN  prev_run' = <<[status |-> outcome,
                          downloaded |-> Len(files) > 0,
                          uploaded |-> uploads > 0,
                          all_ok |-> CountFailed(results) = 0
                                        /\ successful = uploads]>>
    /\ phase' = "start"
    /\ outcome' = "none"
    /\ error' = "none"
    /\ calls' = {}
    /\ files' = <<>>
    /\ next_item' = 1
    /\ in_progress' = {}
    /\ pc' = <<>>
    /\ results' = <<>>
    /\ remote_files' = <<>>
    /\ local_files' = <<>>
    /\ to_upload' = <<>>
    /\ successful' = 0
    /\ UNCHANGED <<mode, max_concurrent, lock, failed, fsVars, cmVars>>
    /\ UNCHANGED <<beVars, fnVars, brVars, sideVars>>

\* ------------------------------------------------- ConnectionManager
UserTask == <<"user">>

NoError == [msg |-> "", causes |-> {}]
NoReturn == [op |-> "none", status |-> "none", handle |-> <<>>, err |-> NoError]
Return(op, status, handle, err) ==
    [op |-> op, status |-> status, handle |-> handle, err |-> err]

PasswordMissing == [msg |-> "Password not configured", causes |-> {}]

\* anyhow!("Failed to connect to file server via both SMB and FTP")
BothFailed ==
    [msg |-> "Failed to connect to file server via both SMB and FTP", causes |-> {}]

\* SmbClient::new(server_ip, username, password, Some("share"))
SmbProbe(cfg) ==
    [backend |-> "smb", target |-> <<cfg.server_ip, "share">>,
     status |-> "pending", cause |-> ""]

\* FtpClient::new(format!("{}:21", server_ip), username, password)
FtpProbe(cfg) ==
    [backend |-> "ftp", target |-> <<cfg.server_ip, ":21">>,
     status |-> "pending", cause |-> ""]

\* how the listing of SmbClient::connect can end: the child process runs
\* and exits with success, cannot be spawned, or exits with a failure
LsOutcomes == {"ok", "not spawned", "exit non-zero"}

\* SmbClient::connect: the tool check, then one listing of the share root;
\* cmd.output().await? hands on the io error of a child that was not spawned
SmbConnect(tool_ok, ls) ==
    IF ~tool_ok THEN [ok |-> FALSE, cause |-> "smbclient not found"]
    ELSE IF ls = "not spawned" THEN [ok |-> FALSE, cause |-> "io error"]
    ELSE IF ls = "exit non-zero" THEN [ok |-> FALSE, cause |-> "SMB command failed"]
    ELSE [ok |-> TRUE, cause |-> ""]

\* FtpClient::connect: FtpStream::connect, login, quit
FtpConnect(failing) ==
    IF failing = "none" THEN [ok |-> TRUE, cause |-> ""]
    ELSE [ok |-> FALSE, cause |-> failing]

FtpFailures == {"none", "ftp connect failed", "ftp login failed", "ftp quit failed"}

\* FtpClient::disconnect and SmbClient::disconnect: nothing to do
BackendDisconnect(backend) == "ok"

\* the result of the newest probe is recorded
Settle(ps, r) ==
    [ps EXCEPT ![Len(ps)].status = IF r.ok THEN "ok" ELSE "err",
               ![Len(ps)].cause = r.cause]

\* self.client = Some(arc_client.clone()); return Ok(arc_client)
Publish(backend) ==
    LET h == [id |-> next_handle, backend |-> backend]
    IN  /\ cm_client' = <<h>>
        /\ cm_ret' = Return("connect", "ok", <<h>>, NoError)
        /\ next_handle' = next_handle + 1
        /\ cm_pc' = "idle"

\* mutant: a client that is already published is not reused
ConnectCallAlwaysProbes ==
    /\ cm_pc = "idle"
    /\ next_handle <= MaxHandles
    /\ stderr' = <<>>
    /\ IF config.password = <<>>
       THEN /\ cm_ret' = Return("connect", "err", <<>>, PasswordMissing)
            /\ probes' = <<>>
            /\ cm_pc' = cm_pc
       ELSE /\ cm_ret' = Return("connect", "pending", <<>>, NoError)
            /\ probes' = <<SmbProbe(config)>>
            /\ cm_pc' = "smb_connect"
    /\ UNCHANGED <<config, cm_client, next_handle, lock, dlVars>>
    /\ UNCHANGED <<beVars, fnVars, brVars, sideVars>>

\* mutant: a missing password is replaced by an empty one
ConnectCallNoSecretCheck ==
    /\ cm_pc = "idle"
    /\ stderr' = <<>>
    /\ IF cm_client /= <<>>
       THEN /\ cm_ret' = Return("connect", "ok", cm_client, NoError)
            /\ probes' = <<>>
            /\ cm_pc' = cm_pc
       ELSE /\ next_handle <= MaxHandles
            /\ cm_ret' = Return("connect", "pending", <<>>, NoError)
            /\ probes' = <<SmbProbe(config)>>
            /\ cm_pc' = "smb_connect"
    /\ UNCHANGED <<config, cm_client, next_handle, lock, dlVars>>
    /\ UNCHANGED <<beVars, fnVars, brVars, sideVars>>

\* mutant: the preferred protocol of the configuration is probed first
ConnectCallPreferred ==
    /\ cm_pc = "idle"
    /\ stderr' = <<>>
    /\ IF cm_client /= <<>>
       THEN /\ cm_ret' = Return("connect", "ok", cm_client, NoError)
            /\ probes' = <<>>
            /\ cm_pc' = cm_pc
       ELSE IF config.password = <<>>
       THEN /\ cm_ret' = Return("connect", "err", <<>>, PasswordMissing)
            /\ probes' = <<>>
            /\ cm_pc' = cm_pc
       ELSE /\ next_handle <= MaxHandles
            /\ cm_ret' = Return("connect", "pending", <<>>, NoError)
            /\ IF config.default_protocol = "Ftp"
               THEN probes' = <<FtpProbe(config)>> /\ cm_pc' = "ftp_connect"
               ELSE probes' = <<SmbProbe(config)>> /\ cm_pc' = "smb_connect"
    /\ UNCHANGED <<config, cm_client, next_handle, lock, dlVars>>
    /\ UNCHANGED <<beVars, fnVars, brVars, sideVars>>

\* connect, up to the first suspension: the early return, the password
\* check, the construction of the SMB backend
ConnectCall ==
    /\ cm_pc = "idle"
    /\ stderr' = <<>>
    /\ IF cm_client /= <<>>
       THEN /\ cm_ret' = Return("connect", "ok", cm_client, NoError)
            /\ probes' = <<>>
            /\ cm_pc' = cm_pc
       ELSE IF config.password = <<>>
       THEN /\ cm_ret' = Return("connect", "err", <<>>, PasswordMissing)
            /\ probes' = <<>>
            /\ cm_pc' = cm_pc
       ELSE /\ next_handle <= MaxHandles
            /\ cm_ret' = Return("connect", "pending", <<>>, NoError)
            /\ probes' = <<SmbProbe(config)>>
            /\ cm_pc' = "smb_connect"
    /\ UNCHANGED <<config, cm_client, next_handle, lock, dlVars>>
    /\ UNCHANGED <<beVars, fnVars, brVars, sideVars>>

\* mutant: the SMB backend is published whatever its probe returned
SmbProbeReturnPublishes ==
    /\ cm_pc = "smb_connect"
    /\ \E tool_ok \in BOOLEAN, ls \in LsOutcomes :
         /\ Publish("smb")
         /\ probes' = Settle(probes, SmbConnect(tool_ok, ls))
         /\ stderr' = stderr
    /\ UNCHANGED <<config, lock, dlVars, beVars, fnVars, brVars, sideVars>>

\* match smb_client.connect().await
SmbProbeReturn ==
    /\ cm_pc = "smb_connect"
    /\ \E tool_ok \in BOOLEAN, ls \in LsOutcomes :
         LET r == SmbConnect(tool_ok, ls)
         IN  IF r.ok
             THEN /\ Publish("smb")
                  /\ probes' = Settle(probes, r)
                  /\ stderr' = stderr
             ELSE /\ stderr' = Append(stderr,
                        [text |-> "SMB connection failed", cause |-> r.cause])
                  /\ probes' = Append(Settle(probes, r), FtpProbe(config))
                  /\ cm_pc' = "ftp_connect"
                  /\ UNCHANGED <<cm_client, cm_ret, next_handle>>
    /\ UNCHANGED <<config, lock, dlVars>>
    /\ UNCHANGED <<beVars, fnVars, brVars, sideVars>>

\* mutant: the FTP error itself is returned
FtpProbeReturnPropagates ==
    /\ cm_pc = "ftp_connect"
    /\ \E failing \in FtpFailures :
         LET r == FtpConnect(failing)
         IN  IF r.ok
             THEN /\ Publish("ftp")
                  /\ probes' = Settle(probes, r)
                  /\ stderr' = stderr
             ELSE /\ stderr' = stderr
                  /\ probes' = Settle(probes, r)
                  /\ cm_ret' = Return("connect", "err", <<>>,
                                      [msg |-> r.cause, causes |-> {r.cause}])
                  /\ cm_pc' = "idle"
                  /\ UNCHANGED <<cm_client, next_handle>>
    /\ UNCHANGED <<config, lock, dlVars>>
    /\ UNCHANGED <<beVars, fnVars, brVars, sideVars>>

\* match ftp_client.connect().await
FtpProbeReturn ==
    /\ cm_pc = "ftp_connect"
    /\ \E failing \in FtpFailures :
         LET r == FtpConnect(failing)
         IN  IF r.ok
             THEN /\ Publish("ftp")
                  /\ probes' = Settle(probes, r)
                  /\ stderr' = stderr
             ELSE /\ stderr' = Append(stderr,
                        [text |-> "FTP connection also failed", cause |-> r.cause])
                  /\ probes' = Settle(probes, r)
                  /\ cm_ret' = Return("connect", "err", <<>>, BothFailed)
                  /\ cm_pc' = "idle"
                  /\ UNCHANGED <<cm_client, next_handle>>
    /\ UNCHANGED <<config, lock, dlVars>>
    /\ UNCHANGED <<beVars, fnVars, brVars, sideVars>>

\* mutant: the client is cloned, not taken
DisconnectCallKeepsClient ==
    /\ cm_pc = "idle"
    /\ IF cm_client /= <<>>
       THEN /\ cm_ret' = Return("disconnect", "pending", cm_client, NoError)
            /\ cm_pc' = "disconnect_wait"
       ELSE /\ cm_ret' = Return("disconnect", "ok", <<>>, NoError)
            /\ cm_pc' = cm_pc
    /\ UNCHANGED <<config, cm_client, probes, stderr, next_handle, lock, dlVars>>
    /\ UNCHANGED <<beVars, fnVars, brVars, sideVars>>

\* disconnect: if let Some(client) = self.client.take()
DisconnectCall ==
    /\ cm_pc = "idle"
    /\ IF cm_client /= <<>>
       THEN /\ cm_client' = <<>>
            /\ cm_ret' = Return("disconnect", "pending", cm_client, NoError)
            /\ cm_pc' = "disconnect_wait"
       ELSE /\ cm_client' = cm_client
            /\ cm_ret' = Return("disconnect", "ok", <<>>, NoError)
            /\ cm_pc' = cm_pc
    /\ UNCHANGED <<config, probes, stderr, next_handle, lock, dlVars>>
    /\ UNCHANGED <<beVars, fnVars, brVars, sideVars>>

\* disconnect: client.lock().await; client.disconnect().await?; Ok(())
\* the lock is the Mutex of the handle that was taken; the backend's
\* disconnect does not suspend, the guard is dropped on return
DisconnectLocked ==
    /\ cm_pc = "disconnect_wait"
    /\ cm_ret.handle[1].id \notin user_guards
    /\ cm_ret' = Return("disconnect",
                        BackendDisconnect(cm_ret.handle[1].backend), <<>>, NoError)
    /\ cm_pc' = "idle"
    /\ UNCHANGED <<config, cm_client, probes, stderr, next_handle, lock, dlVars>>
    /\ UNCHANGED <<beVars, fnVars, brVars, sideVars>>

\* the handles connect has returned so far: every Arc::new(Mutex::new(..))
\* has a Mutex of its own, and a clone that a task was given stays usable
\* after disconnect has taken the client out of the manager
HandlesGiven == 1..(next_handle - 1)

\* a task that was given handle h locks it for a call of its own
UserLock(h) ==
    /\ h \in HandlesGiven
    /\ h \notin user_guards
    /\ user_guards' = user_guards \cup {h}
    /\ UNCHANGED <<cmVars, dlVars, lock, detached>>
    /\ UNCHANGED <<beVars, fnVars, brVars>>

UserUnlock(h) ==
    /\ h \in user_guards
    /\ user_guards' = user_guards \ {h}
    /\ UNCHANGED <<cmVars, dlVars, lock, detached>>
    /\ UNCHANGED <<beVars, fnVars, brVars>>

\* ------------------------------------------------- strings
\* a string is the sequence of its characters
\* a letter that UTF-8 writes in two bytes
TwoByteChar == "e-acute"

\* U+00A0, the no-break space: White_Space, two bytes in UTF-8
NoBreakSpace == "nbsp"

\* the White_Space characters that UTF-8 writes in three bytes, each named
\* by its code point
ThreeByteSpaces ==
    {"U+1680", "U+2000", "U+2001", "U+2002", "U+2003", "U+2004", "U+2005",
     "U+2006", "U+2007", "U+2008", "U+2009", "U+200A", "U+2028", "U+2029",
     "U+202F", "U+205F", "U+3000"}

\* char::is_whitespace: the characters with the White_Space property, which
\* are U+0009 to U+000D (tab, line feed, vertical tab, form feed, carriage
\* return), the space, U+0085, U+00A0 and the three-byte ones
IsWhitespace(c) ==
    c \in {"\t", "\n", "U+000B", "\f", "\r", " ", "U+0085", NoBreakSpace}
              \cup ThreeByteSpaces

\* str::len: the length in bytes
RECURSIVE ByteLen(_)
ByteLen(s) ==
    IF s = <<>> THEN 0
    ELSE (IF s[1] \in ThreeByteSpaces THEN 3
          ELSE IF s[1] \in {TwoByteChar, NoBreakSpace, "U+0085"} THEN 2
          ELSE 1)
         + ByteLen(Tail(s))

\* str::is_char_boundary
IsCharBoundary(s, n) == \E k \in 0..Len(s) : ByteLen(SubSeq(s, 1, k)) = n

\* str::trim_start, str::trim_end, str::trim
RECURSIVE TrimStart(_)
TrimStart(s) ==
    IF s /= <<>> /\ IsWhitespace(s[1]) THEN TrimStart(Tail(s)) ELSE s

RECURSIVE TrimEnd(_)
TrimEnd(s) ==
    IF s /= <<>> /\ IsWhitespace(s[Len(s)])
    THEN TrimEnd(SubSeq(s, 1, Len(s) - 1))
    ELSE s

Trim(s) == TrimEnd(TrimStart(s))

\* str::trim_end_matches(c)
RECURSIVE TrimEndMatches(_, _)
TrimEndMatches(s, c) ==
    IF s /= <<>> /\ s[Len(s)] = c
    THEN TrimEndMatches(SubSeq(s, 1, Len(s) - 1), c)
    ELSE s

\* str::split_whitespace().collect(): the maximal runs of characters that
\* are not white space
RECURSIVE SplitWhitespace(_)
SplitWhitespace(s) ==
    LET t == TrimStart(s)
    IN  IF t = <<>> THEN <<>>
        ELSE LET n == CHOOSE k \in 1..(Len(t) + 1) :
                        /\ \A j \in 1..(k - 1) : ~IsWhitespace(t[j])
                        /\ k = Len(t) + 1 \/ IsWhitespace(t[k])
             IN  <<SubSeq(t, 1, n - 1)>> \o SplitWhitespace(SubSeq(t, n, Len(t)))

\* [&str]::join(sep)
RECURSIVE Join(_, _)
Join(parts, sep) ==
    IF parts = <<>> THEN <<>>
    ELSE IF Len(parts) = 1 THEN parts[1]
    ELSE parts[1] \o sep \o Join(Tail(parts), sep)

\* str::contains
Contains(s, sub) ==
    \E k \in 1..(Len(s) - Len(sub) + 1) : SubSeq(s, k, k + Len(sub) - 1) = sub

\* the decimal digits, each at the position of its value plus one
Digits == <<"0", "1", "2", "3", "4", "5", "6", "7", "8", "9">>

IsDigit(c) == \E d \in DOMAIN Digits : Digits[d] = c

RECURSIVE DecimalValue(_)
DecimalValue(ds) ==
    IF ds = <<>> THEN 0
    ELSE 10 * DecimalValue(SubSeq(ds, 1, Len(ds) - 1))
            + (CHOOSE d \in DOMAIN Digits : Digits[d] = ds[Len(ds)]) - 1

\* str::parse::<u64>() as an Option: an optional '+', then digits only (the
\* tokens modelled are far too short to overflow)
ParseU64(tok) ==
    LET body == IF tok /= <<>> /\ tok[1] = "+" THEN Tail(tok) ELSE tok
    IN  IF body = <<>> \/ \E k \in DOMAIN body : ~IsDigit(body[k])
        THEN <<>>
        ELSE <<DecimalValue(body)>>

\* Option::unwrap_or
UnwrapOr(opt, default) == IF opt = <<>> THEN default ELSE opt[1]

Spaces(n) == [k \in 1..n |-> " "]

\* ------------------------------------------------- FtpClient
\* mutant: the name is the ninth field alone
FtpParseListLineNinthField(line) ==
    LET parts == SplitWhitespace(line)
    IN  IF Len(parts) < FtpMinParts THEN <<>>
        ELSE <<[name |-> parts[FtpMinParts],
                path |-> parts[FtpMinParts],
                size |-> UnwrapOr(ParseU64(parts[5]), 0),
                is_dir |-> parts[1][1] = "d"]>>

\* FtpClient::parse_list_line (an Option)
FtpParseListLine(line) ==
    LET parts == SplitWhitespace(line)
    IN  IF Len(parts) < FtpMinParts THEN <<>>
        ELSE LET name == Join(SubSeq(parts, FtpMinParts, Len(parts)), <<" ">>)
             IN  <<[name |-> name,
                    path |-> name,
                    size |-> UnwrapOr(ParseU64(parts[5]), 0),
                    is_dir |-> parts[1][1] = "d"]>>

\* FtpClient::list_files: filter_map(parse_list_line), then the path is set
RECURSIVE FtpListed(_, _)
FtpListed(path, lines) ==
    IF lines = <<>> THEN <<>>
    ELSE LET parsed == FtpParseListLine(lines[1])
             file == [k \in DOMAIN parsed |->
                        [parsed[k] EXCEPT !.path =
                            TrimEndMatches(path, "/") \o <<"/">> \o parsed[k].name]]
         IN  file \o FtpListed(path, Tail(lines))

\* ------------------------------------------------- SmbClient
\* mutant: the size column is read for directories too
SmbSizeOfAnyEntry(parts, is_dir) ==
    IF Len(parts) > 1 THEN UnwrapOr(ParseU64(parts[2]), 0) ELSE 0

\* "blocks of size", the mark of smbclient's disk space summary line
BlocksOfSize ==
    <<"b", "l", "o", "c", "k", "s", " ", "o", "f", " ", "s", "i", "z", "e">>

\* SmbClient::parse_list_line: the size of an entry
SmbSize(parts, is_dir) ==
    IF Len(parts) > 1 /\ ~is_dir THEN UnwrapOr(ParseU64(parts[2]), 0) ELSE 0

\* SmbClient::parse_list_line panics: the line reaches line[..35] and byte
\* 35 is inside a character
SmbParsePanics(line) ==
    /\ Trim(line) /= <<>>
    /\ ~Contains(Trim(line), BlocksOfSize)
    /\ ByteLen(line) >= NameColumn + 1
    /\ ~IsCharBoundary(line, NameColumn)

\* SmbClient::parse_list_line (an Option), for a line it does not panic on
SmbParseListLine(line, base_path) ==
    LET trimmed == Trim(line)
        cut == CHOOSE k \in 0..Len(line) :
                   ByteLen(SubSeq(line, 1, k)) = NameColumn
        name == Trim(SubSeq(line, 1, cut))
        parts == SplitWhitespace(Trim(SubSeq(line, cut + 1, Len(line))))
    IN  IF trimmed = <<>> \/ Contains(trimmed, BlocksOfSize) THEN <<>>
        ELSE IF ByteLen(line) < NameColumn + 1 THEN <<>>
        ELSE IF name = <<".">> \/ name = <<".", ".">> THEN <<>>
        ELSE IF parts = <<>> THEN <<>>
        ELSE LET is_dir == Contains(parts[1], <<"D">>)
             IN  <<[name |-> name,
                    path |-> IF base_path = <<"/">>
                             THEN <<"/">> \o name
                             ELSE TrimEndMatches(base_path, "/") \o <<"/">> \o name,
                    size |-> SmbSize(parts, is_dir),
                    is_dir |-> is_dir]>>

\* SmbClient::parse_smbclient_list
RECURSIVE SmbListed(_, _)
SmbListed(path, lines) ==
    IF lines = <<>> THEN <<>>
    ELSE SmbParseListLine(lines[1], path) \o SmbListed(path, Tail(lines))

\* ------------------------------------------------- one backend operation
NoBackendReturn ==
    [op |-> "none", status |-> "none", files |-> <<>>, fault |-> "none",
     err |-> <<>>]

\* anyhow!("SMB command failed: {}", stderr): the parts of the message
SmbCommandFailed(text) == <<"SMB command failed: ", text>>

\* anyhow!("smbclient not found. Please install samba-client package")
SmbclientNotFound == <<"smbclient not found. Please install samba-client package">>

\* the io::Error of Command::output for a child that could not be started,
\* handed on by ?
SpawnError == <<"spawn">>

\* how one run of smbclient can end
SmbFaults == {"none", "not spawned", "exit non-zero"}

\* run_smbclient_command: cmd.output().await? hands on the io error of a
\* child that was not started; a child that exits with a failure gives
\* "SMB command failed: " and its standard error
RunSmbclient(fault) ==
    CASE fault = "none" -> <<>>
      [] fault = "not spawned" -> SpawnError
      [] OTHER -> SmbCommandFailed(be_stderr)

\* the error an FtpClient operation returns when the given step fails: the
\* error of the failing call, passed on by ?
ErrorOf(failure) ==
    IF failure = "none" THEN <<>> ELSE <<failure>>

\* the first step that fails: the one the environment makes fail, or one
\* that cannot succeed in the present state
FirstFailure(steps, fault, forced) ==
    LET bad == {k \in DOMAIN steps : steps[k] = fault \/ steps[k] \in forced}
    IN  IF bad = {} THEN "none"
        ELSE steps[CHOOSE k \in bad : \A j \in bad : k <= j]

\* the steps performed: all of them, or those up to the failing one (?)
Performed(steps, failure) ==
    IF failure = "none" THEN steps
    ELSE SubSeq(steps, 1, CHOOSE k \in DOMAIN steps : steps[k] = failure)

Succeeded(steps, failure, step) ==
    /\ \E k \in DOMAIN Performed(steps, failure) : steps[k] = step
    /\ failure /= step

\* FtpClient::list_files
FtpListSteps == <<"connect", "login", "cwd", "list", "quit">>

FtpListFiles ==
    /\ be_kind = "ftp"
    /\ be_op = "list"
    /\ \E fault \in {"none"} \cup {FtpListSteps[k] : k \in DOMAIN FtpListSteps} :
         /\ be_log' = Performed(FtpListSteps, fault)
         /\ be_ret' = IF fault = "none"
                      THEN [op |-> "list", status |-> "ok",
                            files |-> FtpListed(be_path, be_lines), fault |-> fault,
                            err |-> <<>>]
                      ELSE [op |-> "list", status |-> "err", files |-> <<>>,
                            fault |-> fault, err |-> ErrorOf(fault)]
    /\ be_op' = "done"
    /\ UNCHANGED <<be_kind, be_path, be_lines, be_remote, be_local, be_before,
                   be_stderr, dlVars, lock, cmVars, fnVars, brVars, sideVars>>

\* SmbClient::list_files: one run of smbclient -c ls
SmbListSteps == <<"smbclient ls">>

SmbListFiles ==
    /\ be_kind = "smb"
    /\ be_op = "list"
    /\ \E fault \in SmbFaults :
         /\ be_log' = SmbListSteps
         /\ be_ret' = IF fault /= "none"
                      THEN [op |-> "list", status |-> "err", files |-> <<>>,
                            fault |-> fault, err |-> RunSmbclient(fault)]
                      ELSE IF \E k \in DOMAIN be_lines :
                                  SmbParsePanics(be_lines[k])
                      THEN [op |-> "list", status |-> "panic", files |-> <<>>,
                            fault |-> fault, err |-> <<>>]
                      ELSE [op |-> "list", status |-> "ok",
                            files |-> SmbListed(be_path, be_lines), fault |-> fault,
                            err |-> <<>>]
    /\ be_op' = "done"
    /\ UNCHANGED <<be_kind, be_path, be_lines, be_remote, be_local, be_before,
                   be_stderr, dlVars, lock, cmVars, fnVars, brVars, sideVars>>

\* mutant: the local file is created before the transfer starts
FtpDownloadStepsCreateFirst ==
    <<"connect", "login", "create", "retr", "read", "quit", "write">>

\* FtpClient::download_file: the whole file is retrieved and the session
\* closed, then File::create(local_path) and write_all
FtpDownloadSteps ==
    <<"connect", "login", "retr", "read", "quit", "create", "write">>

\* steps that cannot succeed: RETR of a file the server does not have,
\* File::create in a directory that does not exist
Forced(local, remote) ==
    (IF remote = <<>> THEN {"retr"} ELSE {})
        \cup (IF ~local.parent THEN {"create"} ELSE {})

\* what a transfer of content that is cut short leaves at its target: a
\* file holding the bytes that arrived before the error
CutShort(content) ==
    {<<SubSeq(content, 1, k)>> : k \in 0..(Len(content) - 1)}

\* what a transfer that is reported as failed leaves at its target, where
\* before was: nothing new, a part of the content, or all of it when the
\* error came after the last byte (the closing reply of STOR, the exit
\* status of smbclient)
FailedTransferLeaves(before, content) ==
    {before} \cup CutShort(content) \cup {<<content>>}

\* the local side after the steps performed; a file's content is its
\* sequence of bytes, and a write_all that fails leaves the bytes it wrote
\* before the error
LocalAfter(local, remote, steps, failure, written) ==
    [parent |-> local.parent,
     file |-> IF Succeeded(steps, failure, "write") THEN remote
              ELSE IF failure = "write" THEN <<SubSeq(remote[1], 1, written)>>
              ELSE IF Succeeded(steps, failure, "create") THEN <<<<>>>>
              ELSE local.file]

DownloadFile(steps) ==
    /\ be_op = "download"
    /\ \E fault \in {"none"} \cup {steps[k] : k \in DOMAIN steps},
          written \in 0..(IF be_remote = <<>> THEN 0 ELSE Len(be_remote[1]) - 1) :
         LET failure == FirstFailure(steps, fault, Forced(be_local, be_remote))
         IN  /\ be_log' = Performed(steps, failure)
             /\ be_local' = LocalAfter(be_local, be_remote, steps, failure, written)
             /\ be_ret' = [op |-> "download",
                           status |-> IF failure = "none" THEN "ok" ELSE "err",
                           files |-> <<>>, fault |-> fault,
                           err |-> ErrorOf(failure)]
    /\ be_op' = "done"
    /\ UNCHANGED <<be_kind, be_path, be_lines, be_remote, be_before, be_stderr,
                   dlVars, lock, cmVars, fnVars, brVars, sideVars>>

FtpDownloadFile == be_kind = "ftp" /\ DownloadFile(FtpDownloadSteps)

\* the steps of the other FtpClient operations; connect_ftp is
\* FtpStream::connect followed by login
FtpSteps(op) ==
    CASE op = "connect" -> <<"connect", "login", "quit">>
      [] op = "upload" -> <<"open", "read_local", "connect", "login", "put", "quit">>
      [] op = "mkdir" -> <<"connect", "login", "mkdir", "quit">>
      [] op = "delete" -> <<"connect", "login", "rm", "quit">>
      [] op = "size" -> <<"connect", "login", "size", "quit">>
      [] op = "disconnect" -> <<>>

\* FtpClient::connect, disconnect, upload_file, create_directory and
\* delete_file: every step is followed by ?, the first failure returns; a
\* put_file that fails was refused, or was cut short and left a part of
\* the file on the server, or lost the closing reply of a STOR that had
\* stored all of it
FtpOperation ==
    /\ be_kind = "ftp"
    /\ be_op \in {"connect", "disconnect", "upload", "mkdir", "delete"}
    /\ LET steps == FtpSteps(be_op)
       IN  \E fault \in {"none"} \cup {steps[k] : k \in DOMAIN steps} :
             LET forced == IF be_op = "upload" /\ be_local.file = <<>>
                           THEN {"open"} ELSE {}
                 failure == FirstFailure(steps, fault, forced)
             IN  /\ be_log' = Performed(steps, failure)
                 /\ be_remote' \in
                       IF be_op = "upload" /\ Succeeded(steps, failure, "put")
                       THEN {be_local.file}
                       ELSE IF be_op = "upload" /\ failure = "put"
                       THEN FailedTransferLeaves(be_remote, be_local.file[1])
                       ELSE {be_remote}
                 /\ be_ret' = [op |-> be_op,
                               status |-> IF failure = "none" THEN "ok" ELSE "err",
                               files |-> <<>>, fault |-> fault,
                               err |-> ErrorOf(failure)]
    /\ be_op' = "done"
    /\ UNCHANGED <<be_kind, be_path, be_lines, be_local, be_before, be_stderr,
                   dlVars, lock, cmVars, fnVars, brVars, sideVars>>

\* FtpClient::get_file_size: the result of SIZE is kept, QUIT is sent, and
\* only then is the result returned
FtpGetFileSize ==
    /\ be_kind = "ftp"
    /\ be_op = "size"
    /\ LET steps == FtpSteps("size")
       IN  \E fault \in {"none"} \cup {steps[k] : k \in DOMAIN steps} :
             /\ be_log' = IF fault = "size" THEN steps ELSE Performed(steps, fault)
             /\ be_ret' = [op |-> "size",
                           status |-> IF fault = "none" THEN "ok" ELSE "err",
                           files |-> <<>>, fault |-> fault,
                           err |-> ErrorOf(fault)]
    /\ be_op' = "done"
    /\ UNCHANGED <<be_kind, be_path, be_lines, be_remote, be_local, be_before,
                   be_stderr, dlVars, lock, cmVars, fnVars, brVars, sideVars>>

\* SmbClient::download_file, up to its first await:
\* tokio::fs::create_dir_all(parent).await?
SmbDownloadFile ==
    /\ be_kind = "smb"
    /\ be_op = "download"
    /\ be_log' = <<"create_dir_all">>
    /\ \E fault \in {"none", "create_dir_all"} :
         IF fault = "none"
         THEN /\ be_local' = [be_local EXCEPT !.parent = TRUE]
              /\ be_op' = "get"
              /\ be_ret' = be_ret
         ELSE /\ be_local' = be_local
              /\ be_op' = "done"
              /\ be_ret' = [op |-> "download", status |-> "err", files |-> <<>>,
                            fault |-> fault, err |-> <<fault>>]
    /\ UNCHANGED <<be_kind, be_path, be_lines, be_remote, be_before, be_stderr,
                   dlVars, lock, cmVars, fnVars, brVars, sideVars>>

\* SmbClient::download_file, from its second await: smbclient -c get, which
\* writes the local file; the get of a file the server does not have
\* fails, and a get that fails leaves what smbclient had written when it
\* exited: nothing, a part of the local file or all of it
SmbDownloadGet ==
    /\ be_kind = "smb"
    /\ be_op = "get"
    /\ be_log' = Append(be_log, "get")
    /\ \E fault \in SmbFaults :
         LET failure == IF fault = "none" /\ be_remote = <<>>
                        THEN "exit non-zero" ELSE fault
         IN  /\ be_local' \in
                   IF failure = "none"
                   THEN {[be_local EXCEPT !.file = be_remote]}
                   ELSE IF failure = "exit non-zero" /\ be_remote /= <<>>
                   THEN {[be_local EXCEPT !.file = left] :
                            left \in FailedTransferLeaves(be_local.file,
                                                          be_remote[1])}
                   ELSE {be_local}
             /\ be_ret' = [op |-> "download",
                           status |-> IF failure = "none" THEN "ok" ELSE "err",
                           files |-> <<>>, fault |-> fault,
                           err |-> RunSmbclient(failure)]
    /\ be_op' = "done"
    /\ UNCHANGED <<be_kind, be_path, be_lines, be_remote, be_before, be_stderr,
                   dlVars, lock, cmVars, fnVars, brVars, sideVars>>

\* the one smbclient command of SmbClient::upload_file, create_directory
\* and delete_file; disconnect runs nothing
SmbSteps(op) ==
    CASE op = "upload" -> <<"put">>
      [] op = "mkdir" -> <<"mkdir">>
      [] op = "delete" -> <<"del">>
      [] op = "disconnect" -> <<>>

\* SmbClient::disconnect, upload_file, create_directory and delete_file:
\* one run of smbclient, or none; the put of a local file that does not
\* exist fails, and a put that fails leaves on the server what smbclient
\* had stored when it exited: nothing, a part of the file or all of it
SmbOperation ==
    /\ be_kind = "smb"
    /\ be_op \in {"disconnect", "upload", "mkdir", "delete"}
    /\ be_log' = SmbSteps(be_op)
    /\ \E fault \in (IF SmbSteps(be_op) = <<>> THEN {"none"} ELSE SmbFaults) :
         LET failure == IF fault = "none" /\ be_op = "upload" /\ be_local.file = <<>>
                        THEN "exit non-zero" ELSE fault
         IN  /\ be_remote' \in
                   IF be_op = "upload" /\ failure = "none"
                   THEN {be_local.file}
                   ELSE IF be_op = "upload" /\ failure = "exit non-zero"
                           /\ be_local.file /= <<>>
                   THEN FailedTransferLeaves(be_remote, be_local.file[1])
                   ELSE {be_remote}
             /\ be_ret' = [op |-> be_op,
                           status |-> IF failure = "none" THEN "ok" ELSE "err",
                           files |-> <<>>, fault |-> fault,
                           err |-> RunSmbclient(failure)]
    /\ be_op' = "done"
    /\ UNCHANGED <<be_kind, be_path, be_lines, be_local, be_before, be_stderr,
                   dlVars, lock, cmVars, fnVars, brVars, sideVars>>

\* str::rfind('/'): the position of the last '/', 0 for None
RFindSlash(s) ==
    IF \E k \in DOMAIN s : s[k] = "/"
    THEN CHOOSE k \in DOMAIN s : s[k] = "/" /\ \A j \in (k + 1)..Len(s) : s[j] /= "/"
    ELSE 0

\* get_file_size: the directory that is listed, and the name looked for
SizeParent(path) ==
    IF RFindSlash(path) = 0 THEN <<"/">> ELSE SubSeq(path, 1, RFindSlash(path) - 1)
SizeFileName(path) == SubSeq(path, RFindSlash(path) + 1, Len(path))

\* anyhow!("File not found: {}", path)
FileNotFound(path) == <<"File not found: ", path>>

\* for file in files { if file.name == filename { return Ok(file.size) } }:
\* the first entry with the name, as an Option
FirstNamed(listed, filename) ==
    LET Named(f) == f.name = filename
        named == SelectSeq(listed, Named)
    IN  IF named = <<>> THEN <<>> ELSE <<named[1]>>

\* SmbClient::get_file_size: list_files(parent).await?, then the size of
\* the first entry with the file's name (files holds that entry)
SmbGetFileSize ==
    /\ be_kind = "smb"
    /\ be_op = "size"
    /\ be_log' = SmbListSteps
    /\ \/ \E fault \in SmbFaults \ {"none"} :
            be_ret' = [op |-> "size", status |-> "err", files |-> <<>>,
                       fault |-> fault, err |-> RunSmbclient(fault)]
       \/ IF \E k \in DOMAIN be_lines : SmbParsePanics(be_lines[k])
          THEN be_ret' = [op |-> "size", status |-> "panic", files |-> <<>>,
                          fault |-> "none", err |-> <<>>]
          ELSE \E found \in {FirstNamed(SmbListed(SizeParent(be_path), be_lines),
                                        SizeFileName(be_path))} :
                  be_ret' = [op |-> "size",
                             status |-> IF found = <<>> THEN "err" ELSE "ok",
                             files |-> found, fault |-> "none",
                             err |-> IF found = <<>> THEN FileNotFound(be_path)
                                     ELSE <<>>]
    /\ be_op' = "done"
    /\ UNCHANGED <<be_kind, be_path, be_lines, be_remote, be_local, be_before,
                   be_stderr, dlVars, lock, cmVars, fnVars, brVars, sideVars>>

\* mutant: the share root is listed without probing for the tool
SmbClientConnectNoProbe ==
    /\ be_kind = "smb"
    /\ be_op = "connect"
    /\ \E ls \in {"none", "ls not spawned", "ls exit non-zero"} :
         /\ be_log' = <<"smbclient ls">>
         /\ be_ret' = [op |-> "connect",
                       status |-> IF ls = "none" THEN "ok" ELSE "err",
                       files |-> <<>>, fault |-> ls,
                       err |-> CASE ls = "none" -> <<>>
                                 [] ls = "ls not spawned" -> SpawnError
                                 [] OTHER -> SmbCommandFailed(be_stderr)]
    /\ be_op' = "done"
    /\ UNCHANGED <<be_kind, be_path, be_lines, be_remote, be_local, be_before,
                   be_stderr, dlVars, lock, cmVars, fnVars, brVars, sideVars>>

\* SmbClient::connect: check_smbclient_available (smbclient --version must
\* run and exit with success), then run_smbclient_command(ls) on the share
\* root (the child must be spawned and exit with success)
SmbClientConnect ==
    /\ be_kind = "smb"
    /\ be_op = "connect"
    /\ \E fault \in {"none", "tool absent", "version exit non-zero",
                      "ls not spawned", "ls exit non-zero"} :
         IF fault \in {"tool absent", "version exit non-zero"}
         THEN /\ be_log' = <<"smbclient --version">>
              /\ be_ret' = [op |-> "connect", status |-> "err", files |-> <<>>,
                            fault |-> fault, err |-> SmbclientNotFound]
         ELSE /\ be_log' = <<"smbclient --version", "smbclient ls">>
              /\ be_ret' = [op |-> "connect",
                            status |-> IF fault = "none" THEN "ok" ELSE "err",
                            files |-> <<>>, fault |-> fault,
                            err |-> CASE fault = "none" -> <<>>
                                      [] fault = "ls not spawned" -> SpawnError
                                      [] OTHER -> SmbCommandFailed(be_stderr)]
    /\ be_op' = "done"
    /\ UNCHANGED <<be_kind, be_path, be_lines, be_remote, be_local, be_before,
                   be_stderr, dlVars, lock, cmVars, fnVars, brVars, sideVars>>

\* no backend operation is under way
BeQuiet ==
    /\ be_kind = "none"
    /\ be_op = "idle"
    /\ be_path = <<>>
    /\ be_lines = <<>>
    /\ be_remote = <<>>
    /\ be_local = [parent |-> TRUE, file |-> <<>>]
    /\ be_before = be_local
    /\ be_ret = NoBackendReturn
    /\ be_log = <<>>
    /\ be_stderr = ""

\* ---- the inputs of one backend operation
\* the operations modelled for each backend
BackendOps(kind) ==
    IF kind = "ftp"
    THEN {"connect", "disconnect", "list", "download", "upload", "mkdir",
          "delete", "size"}
    ELSE {"connect", "disconnect", "list", "download", "upload", "mkdir",
          "delete", "size"}

\* the paths get_file_size of the SMB backend is asked about: "/a", "a",
\* "/d/a"
SizePaths == {<<"/", "a">>, <<"a">>, <<"/", "d", "/", "a">>}

\* requested paths: "/", "/d", "/d/"
ListPaths == {<<"/">>, <<"/", "d">>, <<"/", "d", "/">>}

\* LIST lines in the Unix format: permissions, links, owner, group, size,
\* three date fields, and a name field that is ".", "..", "a", "a b",
\* "a  b", "a/b" or "l -> /b"; and three lines that are not entries: an
\* empty one, "total 8", and one of eight fields
FtpLines ==
    {perm \o <<" ", "2", " ", "u", " ", "g", " ">> \o size
          \o <<" ", "N", " ", "1", "5", " ", "t", " ">> \o name :
        perm \in {<<"d", "r", "w", "x">>, <<"-", "r", "w", "-">>},
        size \in {<<"0">>, <<"4", "0", "9", "6">>, <<"x">>},
        name \in {<<".">>, <<".", ".">>, <<"a">>, <<"a", " ", "b">>,
                  <<"a", " ", " ", "b">>, <<"a", "/", "b">>,
                  <<"l", " ", "-", ">", " ", "/", "b">>}}
      \cup {<<>>, <<"t", "o", "t", "a", "l", " ", "8">>,
            <<"d", " ", "2", " ", "u", " ", "g", " ", "0", " ", "N", " ", "1",
              " ", "t">>,
            <<"-", "\t", "2", "\f", "u", "U+000B", "g", "U+3000", "7", "\t", "N",
              "U+0085", "1", NoBreakSpace, "t", "\t", "a", "\r">>}

\* smbclient ls lines: the name padded to the attribute column, the
\* attributes, the size and the date; the summary line, an empty line, a
\* line shorter than the name column, a name field left blank, and the
\* line of test_parse_list_line_skip_dots, whose attributes start at
\* column 6; two lines with a two-byte character in the name, one
\* inside the name column and one across its end; and a line written with a
\* no-break space behind the name, a tab before the size and a carriage
\* return at its end
SmbLines ==
    {Spaces(2) \o name \o Spaces(NameColumn - 2 - Len(name)) \o Spaces(1)
          \o attrs \o Spaces(4) \o size \o <<" ", " ", "W", "e", "d">> :
        name \in {<<".">>, <<".", ".">>, <<"a">>, <<"a", " ", "b">>, <<>>},
        attrs \in {<<"D">>, <<"A">>, <<"D", "H">>},
        size \in {<<"0">>, <<"7">>, <<"x">>, <<>>}}
      \cup {Spaces(2) \o <<"a", TwoByteChar>> \o Spaces(NameColumn - 5)
                \o Spaces(1) \o <<"A">> \o Spaces(4) \o <<"7">>,
            Spaces(2) \o <<"a">> \o Spaces(NameColumn - 4) \o <<TwoByteChar>>
                \o Spaces(1) \o <<"A">> \o Spaces(4) \o <<"7">>,
            Spaces(2) \o <<"a", NoBreakSpace>> \o Spaces(NameColumn - 5)
                \o Spaces(1) \o <<"A", "\t", "7", "\r">>}
      \cup {<<>>, Spaces(NameColumn + 5) \o <<"7">> \o Spaces(1) \o BlocksOfSize,
            <<".", " ", " ", "D", " ", "0">>,
            <<".">> \o Spaces(4) \o <<"D">> \o Spaces(8) \o <<"0">> \o Spaces(2)
                \o <<"W", "e", "d", " ", "D", "e", "c", " ", "2", "5", " ", "1", "0", ":", "3", "0", ":", "4", "5", " ", "2", "0", "2", "4">>}

ServerLines(kind) ==
    LET lines == IF kind = "ftp" THEN FtpLines ELSE SmbLines
    IN  UNION {[1..n -> lines] : n \in 0..MaxLines}

\* the local side of a download: the parent directory may be missing, the
\* file may exist already
LocalSides ==
    {l \in [parent : BOOLEAN, file : {<<>>, <<<<"o", "l", "d">>>>}] :
        l.file /= <<>> => l.parent}

\* ------------------------------------------------- utils::glob_match
\* str::starts_with / str::ends_with on strings held as sequences of characters
StartsWith(s, t) == Len(t) <= Len(s) /\ SubSeq(s, 1, Len(t)) = t
EndsWith(s, t) == Len(t) <= Len(s) /\ SubSeq(s, Len(s) - Len(t) + 1, Len(s)) = t

\* str::strip_prefix / str::strip_suffix: Some(rest) or None
StripPrefix(s, t) ==
    IF StartsWith(s, t) THEN <<SubSeq(s, Len(t) + 1, Len(s))>> ELSE <<>>
StripSuffix(s, t) ==
    IF EndsWith(s, t) THEN <<SubSeq(s, 1, Len(s) - Len(t))>> ELSE <<>>

\* mutant: the extension is looked for without its dot
GlobMatchNoDot(filename, pattern) ==
    IF pattern = <<"*">> THEN TRUE
    ELSE IF StripPrefix(pattern, <<"*", ".">>) /= <<>>
    THEN EndsWith(filename, StripPrefix(pattern, <<"*", ".">>)[1])
    ELSE IF StripSuffix(pattern, <<"*">>) /= <<>>
    THEN StartsWith(filename, StripSuffix(pattern, <<"*">>)[1])
    ELSE IF StripPrefix(pattern, <<"*">>) /= <<>>
    THEN EndsWith(filename, StripPrefix(pattern, <<"*">>)[1])
    ELSE filename = pattern

\* glob_match(filename, pattern)
GlobMatch(filename, pattern) ==
    IF pattern = <<"*">> THEN TRUE
    ELSE IF StripPrefix(pattern, <<"*", ".">>) /= <<>>
    THEN EndsWith(filename, <<".">> \o StripPrefix(pattern, <<"*", ".">>)[1])
    ELSE IF StripSuffix(pattern, <<"*">>) /= <<>>
    THEN StartsWith(filename, StripSuffix(pattern, <<"*">>)[1])
    ELSE IF StripPrefix(pattern, <<"*">>) /= <<>>
    THEN EndsWith(filename, StripPrefix(pattern, <<"*">>)[1])
    ELSE filename = pattern

\* one call of glob_match
GlobMatchCall ==
    /\ fn_op = "glob_match"
    /\ fn_ret = <<>>
    /\ fn_ret' = <<GlobMatch(fn_args.filename, fn_args.pattern)>>
    /\ UNCHANGED <<fn_op, fn_args, dlVars, lock, cmVars, beVars, brVars, sideVars>>

\* ------------------------------------------------- Config and serde
\* a JSON document is the sequence of its members; a member is a key, the
\* kind of its value and the text of the value.
\* The members #[derive(Serialize)] writes for the fields of a Config, in
\* field order:
ConfigMembers(c) ==
    LET JsonString(key, text) ==
            [key |-> key, kind |-> "string", text |-> text]
        JsonBool(key, b) ==
            [key |-> key, kind |-> "bool",
             text |-> IF b THEN "true" ELSE "false"]
        JsonOption(key, opt) ==
            IF opt = <<>> THEN [key |-> key, kind |-> "null", text |-> "null"]
            ELSE JsonString(key, opt[1])
    IN  << JsonString("server_ip", c.server_ip),
           JsonString("username", c.username),
           JsonOption("password", c.password),
           JsonString("default_protocol", c.default_protocol),
           JsonBool("configured", c.configured) >>

\* mutant: no field is skipped
SerializeEveryField(c) == ConfigMembers(c)

\* serde_json::to_string(&config): #[serde(skip_serializing)] password
Serialize(c) ==
    LET Kept(m) == m.key /= "password"
    IN  SelectSeq(ConfigMembers(c), Kept)

\* serde_json::from_str::<Config>(json): Some(config), or None for an error;
\* a field of Config met a second time is the error "duplicate field", a
\* key that is no field is ignored
Deserialize(doc) ==
    LET Fields == {"server_ip", "username", "password", "default_protocol",
                   "configured"}
        Has(key, kinds) ==
            \E i \in 1..Len(doc) : doc[i].key = key /\ doc[i].kind \in kinds
        Known(key) == \E i \in 1..Len(doc) : doc[i].key = key
        Text(key) == doc[CHOOSE i \in 1..Len(doc) : doc[i].key = key].text
    IN  IF /\ \A i, j \in 1..Len(doc) :
                  (doc[i].key = doc[j].key /\ doc[i].key \in Fields) => i = j
           /\ Has("server_ip", {"string"})
           /\ Has("username", {"string"})
           /\ Has("default_protocol", {"string"})
           /\ Text("default_protocol") \in {"Ftp", "Smb"}
           /\ Known("password") => Has("password", {"string", "null"})
           /\ Known("configured") => Has("configured", {"bool"})
        THEN << [server_ip |-> Text("server_ip"),
                 username |-> Text("username"),
                 password |-> IF Has("password", {"string"})
                              THEN <<Text("password")>> ELSE <<>>,
                 default_protocol |-> Text("default_protocol"),
                 configured |-> IF Known("configured")
                                THEN Text("configured") = "true"
                                ELSE FALSE] >>
        ELSE <<>>

\* let json = serde_json::to_string(&config)
ConfigToString ==
    /\ fn_op = "serde"
    /\ fn_ret = <<>>
    /\ fn_ret' = <<Serialize(fn_args)>>
    /\ UNCHANGED <<fn_op, fn_args, dlVars, lock, cmVars, beVars, brVars, sideVars>>

\* let decoded: Config = serde_json::from_str(&json)
ConfigFromStr ==
    /\ fn_op = "serde"
    /\ Len(fn_ret) = 1
    /\ fn_ret' = Append(fn_ret, Deserialize(fn_ret[1]))
    /\ UNCHANGED <<fn_op, fn_args, dlVars, lock, cmVars, beVars, brVars, sideVars>>

\* no library function is under call
FnQuiet ==
    /\ fn_op = "none"
    /\ fn_args = <<>>
    /\ fn_ret = <<>>

\* no browser was constructed
BrowserQuiet ==
    /\ br_pc = "none"
    /\ current_path = <<"/">>
    /\ entries = <<>>
    /\ selected = 0
    /\ sort_mode = "Modified"
    /\ reverse_sort = FALSE
    /\ selected_files = <<>>

\* ------------------------------------------------- main: the subcommands
\* Config::load()?, then for every subcommand but Config
\* interactive_setup()? when unconfigured and ensure_password()?: afterwards
\* the password is present.  Commands::Config without arguments runs
\* interactive_setup, which asks for the password; with arguments it sets
\* the fields given and asks for nothing, so that the password is the
\* --password argument or stays as loaded
Setup ==
    /\ phase = "setup"
    /\ \/ /\ phase' = "returned"
          /\ outcome' = "err"
          /\ error' = "configuration failed"
          /\ config' = config
       \/ /\ mode /= "config"
          /\ phase' = "connect"
          /\ config' = [config EXCEPT !.password =
                            IF @ = <<>> THEN <<"prompted">> ELSE @]
          /\ UNCHANGED <<outcome, error>>
       \/ /\ mode = "config"
          /\ phase' = "save"
          /\ \E password \in {<<"prompted">>, <<"argument">>, config.password} :
                 config' = [config EXCEPT !.password = password]
          /\ UNCHANGED <<outcome, error>>
    /\ UNCHANGED <<mode, max_concurrent, files, next_item, in_progress, pc,
                   results, lock, remote_files, local_files, to_upload,
                   successful, failed, calls, fsVars, prev_run, cm_client,
                   cm_pc, cm_ret, probes, stderr, next_handle>>
    /\ UNCHANGED <<beVars, fnVars, brVars, sideVars>>

\* Commands::Config: config.save()? (directly or inside interactive_setup)
SaveConfig ==
    /\ phase = "save"
    /\ phase' = "returned"
    /\ \/ outcome' = "ok" /\ error' = error
       \/ outcome' = "err" /\ error' = "configuration not saved"
    /\ UNCHANGED <<mode, max_concurrent, files, next_item, in_progress, pc,
                   results, lock, remote_files, local_files, to_upload,
                   successful, failed, calls, fsVars, prev_run, cmVars>>
    /\ UNCHANGED <<beVars, fnVars, brVars, sideVars>>

\* let client = conn_mgr.connect().await?  -- the call is made
MainConnect ==
    /\ phase = "connect"
    /\ cm_ret = NoReturn
    /\ ConnectCall

\* let client = conn_mgr.connect().await?  -- the call has returned
Connected ==
    /\ phase = "connect"
    /\ cm_pc = "idle"
    /\ cm_ret.op = "connect"
    /\ IF cm_ret.status = "ok"
       THEN phase' = "start" /\ UNCHANGED <<outcome, error>>
       ELSE /\ phase' = "returned"
            /\ outcome' = "err"
            /\ error' = cm_ret.err.msg
    /\ UNCHANGED <<mode, max_concurrent, files, next_item, in_progress, pc,
                   results, lock, remote_files, local_files, to_upload,
                   successful, failed, calls, fsVars, prev_run, cmVars>>
    /\ UNCHANGED <<beVars, fnVars, brVars, sideVars>>

\* Commands::List: let mut client = client.lock().await;
ListCmdLock ==
    /\ mode = "list"
    /\ phase = "start"
    /\ TryLock(MainTask)
    /\ phase' = "list_cmd"
    /\ Called("list", RemoteDirArg)
    /\ UNCHANGED <<mode, outcome, max_concurrent, files, next_item, in_progress,
                   pc, results, remote_files, local_files, to_upload, successful,
                   cmVars, fsVars, cliVars>>
    /\ UNCHANGED <<beVars, fnVars, brVars, sideVars>>

\* Commands::List: client.list_files(&path).await? and the printed table;
\* the guard is dropped when main returns
ListCmdReturn ==
    /\ phase = "list_cmd"
    /\ phase' = "returned"
    /\ DropGuard
    /\ \/ /\ outcome' = "err"
          /\ error' = "list_files failed"
          /\ remote_files' = remote_files
       \/ \E l \in Listings :
            /\ IsListingOf(l, remote_fs)
            /\ remote_files' = l
            /\ outcome' = "ok"
            /\ error' = error
    /\ UNCHANGED <<mode, max_concurrent, files, next_item, in_progress, pc,
                   results, local_files, to_upload, successful, failed, calls,
                   fsVars, prev_run, cmVars>>
    /\ UNCHANGED <<beVars, fnVars, brVars, sideVars>>

\* Commands::Download, single file: let mut client_guard = client.lock().await;
SingleLock ==
    /\ mode = "single"
    /\ phase = "start"
    /\ TryLock(MainTask)
    /\ phase' = "single"
    /\ Called("download", files[1].remote)
    /\ UNCHANGED <<mode, outcome, max_concurrent, files, next_item, in_progress,
                   pc, results, remote_files, local_files, to_upload, successful,
                   cmVars, fsVars, cliVars>>
    /\ UNCHANGED <<beVars, fnVars, brVars, sideVars>>

\* Commands::Download, single file: client_guard.download_file(..).await?
SingleReturn ==
    /\ phase = "single"
    /\ phase' = "returned"
    /\ DropGuard
    /\ \/ /\ IsRegular(remote_fs, FileName(files[1].remote))
          /\ ~IsDirectory(local_fs, FileName(files[1].local))
          /\ local_fs' = Put(local_fs, FileName(files[1].local),
                             remote_fs[FileName(files[1].remote)])
          /\ outcome' = "ok"
          /\ error' = error
       \/ /\ local_fs' \in FailedDownloadLeaves(local_fs, remote_fs,
                                                FileName(files[1].remote),
                                                FileName(files[1].local))
          /\ outcome' = "err"
          /\ error' = "download_file failed"
    /\ UNCHANGED <<mode, max_concurrent, files, next_item, in_progress, pc,
                   results, remote_files, local_files, to_upload, successful,
                   failed, calls, remote_fs, prev_run, cmVars>>
    /\ UNCHANGED <<beVars, fnVars, brVars, sideVars>>

\* the file names of the engine written out, for glob_match
NameText(n) ==
    IF n = 1 THEN <<"a", ".", "t">>
    ELSE IF n = 2 THEN <<"b">>
    ELSE <<"b">> \o [k \in 1..n |-> "a"]

\* path.split('*').next().unwrap_or("/"): what precedes the first '*'
WildcardDir(path) ==
    LET star == CHOOSE k \in 1..(Len(path) + 1) :
                    /\ \A j \in 1..(k - 1) : path[j] /= "*"
                    /\ k = Len(path) + 1 \/ path[k] = "*"
    IN  SubSeq(path, 1, star - 1)

\* path.split('/').last().unwrap_or("*"): what follows the last '/'
WildcardPattern(path) ==
    LET slash == CHOOSE k \in 0..Len(path) :
                     /\ \A j \in (k + 1)..Len(path) : path[j] /= "/"
                     /\ k = 0 \/ path[k] = "/"
    IN  SubSeq(path, slash + 1, Len(path))

\* Commands::Download with '*': let mut client_guard = client.lock().await;
\* files holds the arguments of the command, (path, dest)
WildcardLock ==
    /\ mode = "wildcard"
    /\ phase = "start"
    /\ TryLock(MainTask)
    /\ phase' = "wild_list"
    /\ Called("list", WildcardDir(files[1].remote))
    /\ UNCHANGED <<mode, outcome, max_concurrent, files, next_item, in_progress,
                   pc, results, remote_files, local_files, to_upload, successful,
                   cmVars, fsVars, cliVars>>
    /\ UNCHANGED <<beVars, fnVars, brVars, sideVars>>

\* mutant: the pattern is not applied
MatchingFilesAnyName(listing, pattern) ==
    LET Keep(f) == ~f.is_dir
        kept == SelectSeq(listing, Keep)
    IN  [k \in DOMAIN kept |-> Item(kept[k].path, <<"local", kept[k].name>>)]

\* files.into_iter().filter(|f| !f.is_dir && glob_match(&f.name, pattern))
\*      .map(|f| (f.path.clone(), dest.join(&f.name)))
MatchingFiles(listing, pattern) ==
    LET Keep(f) == ~f.is_dir /\ GlobMatch(NameText(f.name), pattern)
        kept == SelectSeq(listing, Keep)
    IN  [k \in DOMAIN kept |-> Item(kept[k].path, <<"local", kept[k].name>>)]

\* Commands::Download with '*': list_files(dir).await?, drop(client_guard),
\* the filter, and either "No files match" or the engine at cap 4
WildcardListReturn ==
    /\ phase = "wild_list"
    /\ DropGuard
    /\ \/ /\ phase' = "returned"
          /\ outcome' = "err"
          /\ error' = "list_files failed"
          /\ UNCHANGED <<max_concurrent, files, next_item, in_progress, pc,
                         results, remote_files>>
       \/ \E l \in Listings :
            /\ IsListingOf(l, remote_fs)
            /\ remote_files' = l
            /\ error' = error
            /\ LET matching_files ==
                       MatchingFiles(l, WildcardPattern(files[1].remote))
               IN  IF matching_files = <<>>
                   THEN /\ phase' = "returned"
                        /\ outcome' = "ok"
                        /\ UNCHANGED <<max_concurrent, files, next_item,
                                       in_progress, pc, results>>
                   ELSE /\ EnterEngine(matching_files, WildcardCap)
                        /\ outcome' = outcome
    /\ UNCHANGED <<mode, local_files, to_upload, successful, failed, calls,
                   fsVars, prev_run, cmVars>>
    /\ UNCHANGED <<beVars, fnVars, brVars, sideVars>>

\* the Upload loop moves to the next file, or ends with the summary line
UploadCmdAdvance ==
    /\ to_upload' = Tail(to_upload)
    /\ IF Tail(to_upload) = <<>>
       THEN phase' = "returned" /\ outcome' = "ok"
       ELSE phase' = "start" /\ outcome' = outcome

\* mutant: a file that does not exist is passed over without being counted
UploadCmdMissingUncounted ==
    /\ mode = "upload"
    /\ phase = "start"
    /\ FileName(to_upload[1].local) \notin DOMAIN local_fs
    /\ UploadCmdAdvance
    /\ UNCHANGED <<mode, max_concurrent, files, next_item, in_progress, pc,
                   results, lock, remote_files, local_files, successful, failed,
                   error, calls, fsVars, prev_run, cmVars, beVars, fnVars, brVars, sideVars>>

\* Commands::Upload: if !file.exists() { failed += 1; continue; }
UploadCmdMissing ==
    /\ mode = "upload"
    /\ phase = "start"
    /\ FileName(to_upload[1].local) \notin DOMAIN local_fs
    /\ failed' = failed + 1
    /\ UploadCmdAdvance
    /\ UNCHANGED <<mode, max_concurrent, files, next_item, in_progress, pc,
                   results, lock, remote_files, local_files, successful, error,
                   calls, fsVars, prev_run, cmVars>>
    /\ UNCHANGED <<beVars, fnVars, brVars, sideVars>>

\* Commands::Upload: let mut client_guard = client.lock().await;
UploadCmdAcquire ==
    /\ mode = "upload"
    /\ phase = "start"
    /\ FileName(to_upload[1].local) \in DOMAIN local_fs
    /\ TryLock(MainTask)
    /\ phase' = "upload_cmd"
    /\ Called("upload", to_upload[1].remote)
    /\ UNCHANGED <<mode, outcome, max_concurrent, files, next_item, in_progress,
                   pc, results, remote_files, local_files, to_upload, successful,
                   cmVars, fsVars, cliVars>>
    /\ UNCHANGED <<beVars, fnVars, brVars, sideVars>>

\* mutant: the upload error is propagated with ?
UploadCmdReturnPropagates ==
    /\ phase = "upload_cmd"
    /\ DropGuard
    /\ \/ /\ IsRegular(local_fs, FileName(to_upload[1].local))
          /\ ~IsDirectory(remote_fs, FileName(to_upload[1].remote))
          /\ successful' = successful + 1
          /\ remote_fs' = Put(remote_fs, FileName(to_upload[1].remote),
                              local_fs[FileName(to_upload[1].local)])
          /\ UploadCmdAdvance
          /\ UNCHANGED <<failed, error>>
       \/ /\ phase' = "returned"
          /\ outcome' = "err"
          /\ error' = "upload_file failed"
          /\ remote_fs' \in FailedUploadLeaves(remote_fs, local_fs,
                                               FileName(to_upload[1].remote),
                                               FileName(to_upload[1].local))
          /\ UNCHANGED <<successful, failed, to_upload>>
    /\ UNCHANGED <<mode, max_concurrent, files, next_item, in_progress, pc,
                   results, remote_files, local_files, calls, local_fs,
                   prev_run, cmVars>>
    /\ UNCHANGED <<beVars, fnVars, brVars, sideVars>>

\* Commands::Upload: match client_guard.upload_file(..).await { Ok / Err };
\* the guard is dropped at the end of the iteration
UploadCmdReturn ==
    /\ phase = "upload_cmd"
    /\ DropGuard
    /\ \/ /\ IsRegular(local_fs, FileName(to_upload[1].local))
          /\ ~IsDirectory(remote_fs, FileName(to_upload[1].remote))
          /\ successful' = successful + 1
          /\ remote_fs' = Put(remote_fs, FileName(to_upload[1].remote),
                              local_fs[FileName(to_upload[1].local)])
          /\ failed' = failed
       \/ /\ failed' = failed + 1
          /\ successful' = successful
          /\ remote_fs' \in FailedUploadLeaves(remote_fs, local_fs,
                                               FileName(to_upload[1].remote),
                                               FileName(to_upload[1].local))
    /\ UploadCmdAdvance
    /\ UNCHANGED <<mode, max_concurrent, files, next_item, in_progress, pc,
                   results, remote_files, local_files, error, calls, local_fs,
                   prev_run, cmVars>>
    /\ UNCHANGED <<beVars, fnVars, brVars, sideVars>>

\* ------------------------------------------------- specification
\* a manager that is not used while the engine runs
CmQuiet ==
    /\ config = [server_ip |-> "host", password |-> <<"secret">>,
                 default_protocol |-> "Ftp"]
    /\ cm_client = <<>>
    /\ cm_pc = "idle"
    /\ cm_ret = NoReturn
    /\ probes = <<>>
    /\ stderr = <<>>
    /\ next_handle = 1
    /\ user_guards = {}

Init ==
    /\ mode \in {"files", "directory", "sync"}
    /\ phase = "start"
    /\ outcome = "none"
    /\ max_concurrent \in (IF mode = "sync" THEN {SyncCap} ELSE 0..MaxCap)
    /\ files \in (IF mode = "files"
                  THEN {[i \in 1..n |-> Item(<<"remote", i>>, <<"local", i>>)] :
                            n \in 0..MaxItems}
                  ELSE {<<>>})
    /\ next_item = 1
    /\ in_progress = {}
    /\ pc = <<>>
    /\ results = <<>>
    /\ lock = NoHolder
    /\ remote_files = <<>>
    /\ local_files = <<>>
    /\ to_upload = <<>>
    /\ successful = 0
    /\ failed = 0
    /\ error = "none"
    /\ calls = {}
    /\ detached = {}
    /\ remote_fs \in (IF mode = "files"
                      THEN {[i \in DOMAIN files |-> RegularFile(1)]}
                      ELSE FsStates)
    /\ local_fs \in (IF mode = "sync" THEN LocalFsStates ELSE {<<>>})
    /\ prev_run = <<>>
    /\ CmQuiet
    /\ BeQuiet
    /\ FnQuiet
    /\ BrowserQuiet

Next ==
    \/ StartFiles
    \/ LockForList
    \/ ListReturn
    \/ ScanLocal
    \/ PlanDownloads
    \/ Admit
    \/ \E i \in DOMAIN pc : AcquireSize(i)
    \/ \E i \in DOMAIN pc : SizeReturn(i)
    \/ \E i \in DOMAIN pc : MkdirReturn(i)
    \/ \E i \in DOMAIN pc : AcquireDownload(i)
    \/ \E i \in DOMAIN pc : DownloadReturn(i)
    \/ Finish
    \/ PlanUploads
    \/ UploadAcquire
    \/ UploadReturn
    \/ Cancel
    \/ DetachedReturn

Spec == Init /\ [][Next]_vars

\* download_files and download_directory run to the end: the calling task
\* is never dropped, the executor keeps polling a task that can make a
\* step, every backend call returns, and a free lock is handed out
InitLive == Init /\ mode \in {"files", "directory"}

NextLive ==
    \/ StartFiles
    \/ LockForList
    \/ ListReturn
    \/ Admit
    \/ \E i \in DOMAIN pc : AcquireSize(i)
    \/ \E i \in DOMAIN pc : SizeReturn(i)
    \/ \E i \in DOMAIN pc : MkdirReturn(i)
    \/ \E i \in DOMAIN pc : AcquireDownload(i)
    \/ \E i \in DOMAIN pc : DownloadReturn(i)
    \/ Finish

SpecLive == InitLive /\ [][NextLive]_vars /\ WF_vars(NextLive)

\* download_files on a handle whose caller may drop the future and call
\* again
InitCancel == Init /\ mode = "files"

NextCancel ==
    \/ StartFiles
    \/ Admit
    \/ \E i \in DOMAIN pc : AcquireSize(i)
    \/ \E i \in DOMAIN pc : SizeReturn(i)
    \/ \E i \in DOMAIN pc : MkdirReturn(i)
    \/ \E i \in DOMAIN pc : AcquireDownload(i)
    \/ \E i \in DOMAIN pc : DownloadReturn(i)
    \/ Finish
    \/ Cancel
    \/ DetachedReturn
    \/ CallAgain

SpecCancel == InitCancel /\ [][NextCancel]_vars

\* two successive runs of the Sync subcommand
InitSync == Init /\ mode = "sync"

NextSync ==
    \/ LockForList
    \/ ListReturn
    \/ ScanLocal
    \/ PlanDownloads
    \/ Admit
    \/ \E i \in DOMAIN pc : AcquireSize(i)
    \/ \E i \in DOMAIN pc : SizeReturn(i)
    \/ \E i \in DOMAIN pc : MkdirReturn(i)
    \/ \E i \in DOMAIN pc : AcquireDownload(i)
    \/ \E i \in DOMAIN pc : DownloadReturn(i)
    \/ Finish
    \/ PlanUploads
    \/ UploadAcquire
    \/ UploadReturn
    \/ Cancel
    \/ DetachedReturn
    \/ SecondRun

SpecSync == InitSync /\ [][NextSync]_vars

\* the command line: the files of Upload (one at least, a file may be named
\* twice), each sent to the destination directory under its own name
UploadArgs ==
    {[k \in DOMAIN order |-> Item(Append(TrimEndSlash(RemoteDirArg), order[k]),
                                   <<"local", order[k]>>)] :
        order \in UNION {[1..n -> Names] : n \in 1..MaxNames}}

\* the paths given to Download that hold a '*': a pattern for every name,
\* for an extension, for a prefix that the directory part takes with it, a
\* bare pattern, one that no name matches, and a '*' in a directory segment
WildcardPaths ==
    { <<"/", "d", "/", "*">>, <<"/", "d", "/", "*", ".", "t">>,
      <<"/", "d", "/", "b", "*">>, <<"*", "b">>,
      <<"/", "d", "/", "*", ".", "x">>, <<"/", "d", "*", "/", "b">> }

\* one run of the program for a non-interactive subcommand
InitCli ==
    /\ mode \in {"upload", "wildcard", "single", "list", "sync", "config"}
    /\ phase = "setup"
    /\ outcome = "none"
    /\ max_concurrent = SyncCap
    /\ files \in (IF mode = "single"
                  THEN {<<Item(<<"remote", n>>, <<"local", n>>)>> : n \in Names}
                  ELSE IF mode = "wildcard"
                  THEN {<<Item(p, <<"local">>)>> : p \in WildcardPaths}
                  ELSE {<<>>})
    /\ next_item = 1
    /\ in_progress = {}
    /\ pc = <<>>
    /\ results = <<>>
    /\ lock = NoHolder
    /\ remote_files = <<>>
    /\ local_files = <<>>
    /\ to_upload \in (IF mode = "upload" THEN UploadArgs ELSE {<<>>})
    /\ successful = 0
    /\ failed = 0
    /\ error = "none"
    /\ calls = {}
    /\ detached = {}
    /\ remote_fs \in (IF mode = "config" THEN {<<>>} ELSE LocalFsStates)
    /\ local_fs \in (IF mode \in {"sync", "upload"} THEN LocalFsStates ELSE {<<>>})
    /\ prev_run = <<>>
    /\ config = [server_ip |-> "host", password |-> <<>>,
                 default_protocol |-> "Smb"]
    /\ cm_client = <<>>
    /\ cm_pc = "idle"
    /\ cm_ret = NoReturn
    /\ probes = <<>>
    /\ stderr = <<>>
    /\ next_handle = 1
    /\ user_guards = {}
    /\ BeQuiet
    /\ FnQuiet
    /\ BrowserQuiet

NextCli ==
    \/ Setup
    \/ SaveConfig
    \/ MainConnect
    \/ SmbProbeReturn
    \/ FtpProbeReturn
    \/ Connected
    \/ ListCmdLock
    \/ ListCmdReturn
    \/ SingleLock
    \/ SingleReturn
    \/ WildcardLock
    \/ WildcardListReturn
    \/ UploadCmdMissing
    \/ UploadCmdAcquire
    \/ UploadCmdReturn
    \/ LockForList
    \/ ListReturn
    \/ ScanLocal
    \/ PlanDownloads
    \/ Admit
    \/ \E i \in DOMAIN pc : AcquireSize(i)
    \/ \E i \in DOMAIN pc : SizeReturn(i)
    \/ \E i \in DOMAIN pc : MkdirReturn(i)
    \/ \E i \in DOMAIN pc : AcquireDownload(i)
    \/ \E i \in DOMAIN pc : DownloadReturn(i)
    \/ Finish
    \/ PlanUploads
    \/ UploadAcquire
    \/ UploadReturn

SpecCli == InitCli /\ [][NextCli]_vars


\* ------------------------------------------------- properties: engine
\* tasks that are inside a backend call (get_file_size, download_file,
\* list_files, upload_file)
InCall ==
    {Worker(i) : i \in {j \in DOMAIN pc : pc[j] \in {"size", "download"}}}
        \cup (IF phase \in {"list", "upload"} THEN {MainTask} ELSE {})

\* items whose future has been started and has not finished
Running == {i \in DOMAIN pc : pc[i] \notin {"new", "ok", "err"}}

\* items whose future has finished with an error
Failed == {i \in DOMAIN pc : pc[i] = "err"}

\* download_files has returned to its caller
EngineReturned == phase \in {"returned", "uploads", "upload_wait", "upload"}

\* C1: when download_files returns for a batch of n items the result vector
\* has exactly n elements, one per submitted item, none dropped or duplicated.
C1_ResultLength ==
    EngineReturned =>
        /\ Len(results) = Len(files)
        /\ {results[k].item : k \in DOMAIN results} = DOMAIN files

C1_Witness ==
    /\ mode = "files"
    /\ phase = "returned"
    /\ Len(files) = MaxItems
    /\ Len(results) = MaxItems
    /\ CountFailed(results) >= 1

\* C2: a failing item never turns into a collection-level error and never
\* keeps the other items from being attempted; the failures in the result
\* vector are as many as the items that failed.
C2_FailuresCaptured ==
    /\ (phase = "returned" /\ outcome = "err") => pc = <<>>
    /\ EngineReturned =>
         /\ \A i \in DOMAIN pc : pc[i] \in {"ok", "err"}
         /\ CountFailed(results) = Cardinality(Failed)

C2_Witness ==
    /\ mode = "files"
    /\ phase = "returned"
    /\ outcome = "ok"
    /\ Len(files) = MaxItems
    /\ pc[1] = "err"
    /\ \A i \in 2..MaxItems : pc[i] = "ok"
    /\ CountFailed(results) = 1

\* C3: at every moment at most max_concurrent items are started and not yet
\* finished, and a waiting item is admitted as soon as fewer are in flight:
\* no in-flight future makes a step while an admission is possible.
C3_InFlightBound ==
    /\ [](Cardinality(Running) <= max_concurrent)
    /\ [][(phase = "engine" /\ phase' = "engine" /\ next_item' = next_item)
            => (next_item > Len(files) \/ Cardinality(Running) = max_concurrent)]_vars

C3_Witness ==
    /\ phase = "engine"
    /\ max_concurrent = MaxCap
    /\ Cardinality(Running) = MaxCap
    /\ \E i \in DOMAIN pc : pc[i] \in {"ok", "err"}
    /\ MaxCap + 1 \in Running

\* the backend calls that are executing: those of the live tasks and those
\* whose caller was dropped
Executing == InCall \cup {<<"abandoned", d>> : d \in detached}

\* C4: at most one backend call executes on the shared handle at any moment,
\* and the task making it holds the handle's lock. A call whose caller was
\* dropped goes on without the lock, next to the call of the next holder.
C4_OneCallAtATime ==
    /\ Cardinality(Executing) <= 1
    /\ \A t \in InCall : lock = t

\* among the tasks that were not dropped, at most one is inside a backend
\* call, and it holds the lock
LiveCallsExclusive ==
    /\ Cardinality(InCall) <= 1
    /\ \A t \in InCall : lock = t

\* C5: the lock is held only during a backend call: a finished or failed
\* worker does not keep it, and it is free once the entry point has
\* returned or its task was cancelled.
C5_LockReleased ==
    /\ lock /= NoHolder => lock \in InCall
    /\ \A i \in DOMAIN pc : pc[i] \in {"ok", "err"} => lock /= Worker(i)
    /\ phase \in {"returned", "cancelled"} => lock = NoHolder
    /\ EngineReturned /\ phase /= "upload" => lock = NoHolder

C5_Witness ==
    /\ phase = "engine"
    /\ \E i, j \in DOMAIN pc :
         /\ pc[i] = "err"
         /\ pc[j] = "size"
         /\ lock = Worker(j)


\* C20: the result vector is in completion order: whenever a work item
\* finishes, its outcome is appended behind the outcomes of all the items
\* that finished before it, wherever the item stood in the batch.
C20_CompletionOrder ==
    [][\A i \in DOMAIN pc :
          (/\ i \in DOMAIN pc'
           /\ pc[i] \notin {"ok", "err"}
           /\ pc'[i] \in {"ok", "err"})
          => results' = Append(results, [item |-> i, ok |-> pc'[i] = "ok"])]_vars

\* the second item of the batch finished before the first
C20_Witness ==
    /\ mode = "files"
    /\ phase = "returned"
    /\ Len(results) >= 2
    /\ results[1].item > results[2].item

\* ------------------------------------------------- properties: sync
\* positions of the Sync subcommand at which the download plan is made
DownloadsPlanned ==
    /\ mode = "sync"
    /\ \/ phase \in {"engine", "uploads", "upload_wait", "upload"}
       \/ phase = "returned" /\ outcome = "ok"

\* indices of the listed entries that the download rule selects
WantedRemotely ==
    {k \in DOMAIN remote_files :
        /\ ~remote_files[k].is_dir
        /\ \/ remote_files[k].name \notin DOMAIN local_files
           \/ local_files[remote_files[k].name] /= remote_files[k].size}

\* names of the scanned local files that no listed regular file bears
AbsentRemotely ==
    {n \in DOMAIN local_files :
        \A k \in DOMAIN remote_files :
            remote_files[k].is_dir \/ remote_files[k].name /= n}

\* C11: the download set of a sync run is exactly the non-directory remote
\* entries whose name is absent among the local regular files or whose local
\* size differs; an existing local file of equal size is never downloaded;
\* each member pairs the remote path with localDir/name.
C11_DownloadSet ==
    /\ (mode = "sync" /\ phase = "plan") =>
            local_files = [n \in {x \in DOMAIN local_fs : ~local_fs[x].is_dir}
                             |-> local_fs[n].size]
    /\ DownloadsPlanned =>
         /\ Len(files) = Cardinality(WantedRemotely)
         /\ {files[j] : j \in DOMAIN files} =
                {Item(remote_files[k].path, <<"local", remote_files[k].name>>) :
                    k \in WantedRemotely}
         /\ \A k \in DOMAIN remote_files :
               (/\ remote_files[k].name \in DOMAIN local_files
                /\ local_files[remote_files[k].name] = remote_files[k].size)
               => \A j \in DOMAIN files :
                     FileName(files[j].local) /= remote_files[k].name

\* local a(1), remote a(1) and b: b alone is downloaded
C11_Witness ==
    /\ mode = "sync"
    /\ phase = "engine"
    /\ Len(remote_files) = 2
    /\ Len(files) = 1
    /\ \E k \in DOMAIN remote_files :
          /\ ~remote_files[k].is_dir
          /\ remote_files[k].name \in DOMAIN local_files
          /\ local_files[remote_files[k].name] = remote_files[k].size

\* C12: the upload set of a sync run is exactly the local regular files
\* whose name no non-directory remote entry bears, whatever the sizes; each
\* member pairs the local path with the remote directory, its trailing '/'
\* stripped, followed by '/' and the name.
C12_UploadSet ==
    [][(mode = "sync" /\ phase = "uploads"
            /\ phase' \notin {"uploads", "cancelled"}) =>
          /\ Len(to_upload') = Cardinality(AbsentRemotely)
          /\ {to_upload'[j] : j \in DOMAIN to_upload'} =
                {Item(<<"remote", n>>, <<"local", n>>) : n \in AbsentRemotely}
          /\ \A j \in DOMAIN to_upload' :
                IsRegular(local_fs, FileName(to_upload'[j].local))]_vars

\* one local file is uploaded while another, whose name exists remotely
\* with a different size, is not
C12_Witness ==
    /\ mode = "sync"
    /\ phase = "upload_wait"
    /\ Len(to_upload) = 1
    /\ Cardinality(DOMAIN local_files) = 2
    /\ \E k \in DOMAIN remote_files :
          /\ ~remote_files[k].is_dir
          /\ remote_files[k].name \in DOMAIN local_files
          /\ local_files[remote_files[k].name] /= remote_files[k].size

\* the previous run ended with status 0 and every transfer it made succeeded
PreviousRunClean ==
    /\ prev_run /= <<>>
    /\ prev_run[1].status = "ok"
    /\ prev_run[1].all_ok

\* C13: the second of two successive sync runs on the same two
\* directories, nothing else having changed them, has an empty download
\* set and an empty upload set; stated for a first run that ended with
\* status 0. Such a run may have left transfers undone, and this fails.
C13_SecondRunEmpty ==
    prev_run /= <<>> /\ prev_run[1].status = "ok"
        => (files = <<>> /\ to_upload = <<>>)

\* the second run after a first run all of whose transfers succeeded has
\* both sets empty
SecondRunEmptyAfterCleanRun ==
    PreviousRunClean => (files = <<>> /\ to_upload = <<>>)

\* a second run that ended after a first run that downloaded and uploaded
\* with success
CleanRunRepeated ==
    /\ PreviousRunClean
    /\ prev_run[1].downloaded
    /\ prev_run[1].uploaded
    /\ phase = "returned"
    /\ outcome = "ok"

\* the first run downloaded nothing and uploaded, and the second run has a
\* file to download: the part of a local file that a cut-short upload left
\* on the server, which goes over the local file it was taken from
SecondRunDownloadsCutShort ==
    /\ prev_run /= <<>>
    /\ ~prev_run[1].downloaded
    /\ prev_run[1].uploaded
    /\ phase = "engine"
    /\ \E k \in DOMAIN files :
          /\ IsRegular(local_fs, FileName(files[k].local))
          /\ IsRegular(remote_fs, FileName(files[k].remote))
          /\ remote_fs[FileName(files[k].remote)].size
                < local_fs[FileName(files[k].local)].size

\* the second run has the same upload as the first in its upload set: the
\* name is a directory on the server, and the upload fails in every run
SecondRunUploadsAgain ==
    /\ prev_run /= <<>>
    /\ prev_run[1].uploaded
    /\ to_upload /= <<>>
    /\ IsDirectory(remote_fs, FileName(to_upload[1].remote))

\* C14: a sync run invokes only list, size, download and upload on the
\* handle: it lists the remote directory alone, transfers regular files
\* that are its immediate children, and no entry of either tree is removed.
C14_SyncFrame ==
    [][mode = "sync" =>
          /\ \A c \in calls' :
                /\ c[1] \in {"list", "size", "download", "upload"}
                /\ c[1] = "list" => c[2] = RemoteDirArg
                /\ c[1] \in {"size", "download"} =>
                      c[2] = <<"remote", FileName(c[2])>>
                         /\ IsRegular(remote_fs', FileName(c[2]))
                /\ c[1] = "upload" =>
                      c[2] = <<"remote", FileName(c[2])>>
                         /\ IsRegular(local_fs', FileName(c[2]))
          /\ \A n \in DOMAIN local_fs :
                n \in DOMAIN local_fs' /\ local_fs'[n].is_dir = local_fs[n].is_dir
          /\ \A n \in DOMAIN remote_fs :
                n \in DOMAIN remote_fs' /\ remote_fs'[n].is_dir = remote_fs[n].is_dir]_vars

\* a run that made all four kinds of call next to a remote subdirectory
C14_Witness ==
    /\ mode = "sync"
    /\ phase = "returned"
    /\ {c[1] : c \in calls} = {"list", "size", "download", "upload"}
    /\ \E n \in DOMAIN remote_fs : remote_fs[n].is_dir
    /\ \E n \in DOMAIN local_fs : local_fs[n].is_dir

\* ------------------------------------------------- properties: exit status
\* a file of a batch failed: an engine item, a sync upload or an Upload file
PerFileFailure ==
    \/ CountFailed(results) > 0
    \/ failed > 0
    \/ /\ mode = "sync"
       /\ successful < Cardinality(ToUploadNames(remote_files, local_files))

\* C19 as stated: a batch run with failing files exits 0, and the process
\* exits non-zero only when the connection manager fails to connect.
C19_NonZeroOnlyOnConnect ==
    (phase = "returned" /\ outcome = "err") =>
        (cm_ret.op = "connect" /\ cm_ret.status = "err")

\* C19: a batch run (upload, wildcard download, sync) with failing files
\* exits 0; the process exits non-zero exactly when a step outside the
\* per-file loops fails: configuration, connect, a remote listing, the
\* local scan of sync, or the transfer of a single-file download.
C19_ExitStatus ==
    phase = "returned" =>
        /\ (outcome = "err") <=> (error /= "none")
        /\ error \in {"none", "configuration failed", "configuration not saved",
                       BothFailed.msg, "list_files failed", "local scan failed",
                       "download_file failed"}
        /\ (error = BothFailed.msg) <=>
               (cm_ret.op = "connect" /\ cm_ret.status = "err")
        /\ error = "list_files failed" => mode \in {"list", "wildcard", "sync"}
        /\ error = "local scan failed" => mode = "sync"
        /\ error = "download_file failed" => mode = "single"
        /\ (PerFileFailure /\ outcome = "err") =>
               (mode = "sync" /\ error = "local scan failed")

\* an Upload run in which a file failed, and which exits 0
C19_Witness ==
    /\ mode = "upload"
    /\ phase = "returned"
    /\ outcome = "ok"
    /\ failed >= 1
    /\ successful >= 1

\* ------------------------------------------------- specification: manager
\* no entry point of the engine is running
DlQuiet ==
    /\ mode = "files"
    /\ phase = "idle"
    /\ outcome = "none"
    /\ max_concurrent = 0
    /\ files = <<>>
    /\ next_item = 1
    /\ in_progress = {}
    /\ pc = <<>>
    /\ results = <<>>
    /\ remote_files = <<>>
    /\ local_files = <<>>
    /\ to_upload = <<>>
    /\ successful = 0
    /\ failed = 0
    /\ error = "none"
    /\ calls = {}
    /\ detached = {}
    /\ remote_fs = <<>>
    /\ local_fs = <<>>
    /\ prev_run = <<>>

\* ConnectionManager::new(config): client is None
InitConn ==
    /\ config \in [server_ip : {"host"}, password : {<<>>, <<"secret">>},
                   default_protocol : {"Ftp", "Smb"}]
    /\ cm_client = <<>>
    /\ cm_pc = "idle"
    /\ cm_ret = NoReturn
    /\ probes = <<>>
    /\ stderr = <<>>
    /\ next_handle = 1
    /\ user_guards = {}
    /\ lock = NoHolder
    /\ DlQuiet
    /\ BeQuiet
    /\ FnQuiet
    /\ BrowserQuiet

NextConn ==
    \/ ConnectCall
    \/ SmbProbeReturn
    \/ FtpProbeReturn
    \/ DisconnectCall
    \/ DisconnectLocked
    \/ \E h \in 1..MaxHandles : UserLock(h)
    \/ \E h \in 1..MaxHandles : UserUnlock(h)

SpecConn == InitConn /\ [][NextConn]_vars

\* ------------------------------------------------- specification: backends
\* one operation of one backend, on the inputs the environment provides
InitBackend ==
    /\ be_kind \in {"ftp", "smb"}
    /\ be_op \in BackendOps(be_kind)
    /\ be_path \in (IF be_op = "list" THEN ListPaths
                    ELSE IF be_op = "size" /\ be_kind = "smb" THEN SizePaths
                    ELSE {<<>>})
    /\ be_lines \in (IF be_op = "list" \/ (be_op = "size" /\ be_kind = "smb")
                     THEN ServerLines(be_kind) ELSE {<<>>})
    /\ be_remote \in (IF be_op = "download" THEN {<<>>, <<<<"n", "e", "w">>>>} ELSE {<<>>})
    /\ be_local \in (IF be_op \in {"download", "upload"} THEN LocalSides
                     ELSE {[parent |-> TRUE, file |-> <<>>]})
    /\ be_before = be_local
    /\ be_ret = NoBackendReturn
    /\ be_log = <<>>
    /\ be_stderr \in (IF be_kind = "smb"
                      THEN {"", "NT_STATUS_LOGON_FAILURE"} ELSE {""})
    /\ lock = NoHolder
    /\ DlQuiet
    /\ CmQuiet
    /\ FnQuiet
    /\ BrowserQuiet

NextBackend ==
    \/ FtpListFiles
    \/ SmbListFiles
    \/ FtpDownloadFile
    \/ SmbDownloadFile
    \/ SmbDownloadGet
    \/ FtpOperation
    \/ FtpGetFileSize
    \/ SmbOperation
    \/ SmbGetFileSize
    \/ SmbClientConnect

SpecBackend == InitBackend /\ [][NextBackend]_vars

\* ------------------------------------------------- specification: library
\* the file names and patterns: strings of letters, dots and stars
GlobStrings ==
    UNION {[1..n -> {"a", "b", ".", "*"}] : n \in 0..MaxGlobLen}

\* the configurations handed to the serializer
ConfigValues ==
    [server_ip : {"", "10.0.0.1"},
     username : {"", "testuser"},
     password : {<<>>, <<"">>, <<"testpass">>, <<"testuser">>},
     default_protocol : {"Ftp", "Smb"},
     configured : BOOLEAN]

\* one call of glob_match, or one to_string / from_str round trip
InitPure ==
    /\ fn_op \in {"glob_match", "serde"}
    /\ fn_args \in (IF fn_op = "glob_match"
                     THEN [filename : GlobStrings, pattern : GlobStrings]
                     ELSE ConfigValues)
    /\ fn_ret = <<>>
    /\ lock = NoHolder
    /\ DlQuiet
    /\ CmQuiet
    /\ BeQuiet
    /\ BrowserQuiet

NextPure ==
    \/ GlobMatchCall
    \/ ConfigToString
    \/ ConfigFromStr

SpecPure == InitPure /\ [][NextPure]_vars


\* ------------------------------------------------- properties: manager
\* this step is a connect call that returned or reached its first probe
ConnectStep ==
    /\ cm_ret'.op = "connect"
    /\ <<cm_ret', probes'>> /= <<cm_ret, probes>>

\* the last connect returned after both probes failed
BothProbesFailed ==
    /\ cm_pc = "idle"
    /\ cm_ret.op = "connect"
    /\ cm_ret.status = "err"
    /\ Len(probes) = 2

\* C6: with no secret in the configuration connect fails with the
\* configuration error before any probe: no backend is constructed or
\* published and nothing is probed.
C6_NoSecretNoProbe ==
    config.password = <<>> =>
        /\ probes = <<>>
        /\ stderr = <<>>
        /\ cm_client = <<>>
        /\ next_handle = 1
        /\ cm_pc = "idle"
        /\ cm_ret.op = "connect" =>
             /\ cm_ret.status = "err"
             /\ cm_ret.err = PasswordMissing

C6_Witness ==
    /\ config.password = <<>>
    /\ cm_ret.op = "connect"
    /\ cm_ret.status = "err"

\* C7: while a backend is published every connect returns that same handle
\* without probing, and the published backend is only ever removed by
\* disconnect, never replaced.
C7_ConnectReusesHandle ==
    [][cm_client /= <<>> =>
          /\ ConnectStep =>
               /\ cm_ret'.status = "ok"
               /\ cm_ret'.handle = cm_client
               /\ probes' = <<>>
               /\ cm_pc' = "idle"
          /\ probes' = probes \/ probes' = <<>>
          /\ cm_client' = cm_client
               \/ (cm_client' = <<>> /\ cm_ret'.op = "disconnect")]_vars

C7_Witness ==
    /\ cm_client /= <<>>
    /\ cm_pc = "idle"
    /\ cm_ret.op = "connect"
    /\ cm_ret.status = "ok"
    /\ cm_ret.handle = cm_client
    /\ probes = <<>>

\* C8: a connect that probes tries SMB first and FTP, at host:21, only after
\* that SMB probe failed; a successful SMB probe ends the connect with the
\* SMB backend published; default_protocol does not change the order.
C8_SmbFirst ==
    /\ Len(probes) <= 2
    /\ Len(probes) >= 1 =>
         /\ probes[1].backend = "smb"
         /\ probes[1].status = "ok" =>
              /\ Len(probes) = 1
              /\ cm_ret.op = "connect" =>
                   /\ cm_ret.status = "ok"
                   /\ cm_ret.handle[1].backend = "smb"
    /\ Len(probes) = 2 =>
         /\ probes[1].status = "err"
         /\ probes[2].backend = "ftp"
         /\ probes[2].target = <<config.server_ip, ":21">>
         /\ (probes[2].status = "ok" /\ cm_ret.op = "connect") =>
              /\ cm_ret.status = "ok"
              /\ cm_ret.handle[1].backend = "ftp"
    /\ cm_pc = "smb_connect" =>
         Len(probes) = 1 /\ probes[1].status = "pending"
    /\ cm_pc = "ftp_connect" =>
         Len(probes) = 2 /\ probes[2].status = "pending"

C8_Witness ==
    /\ config.default_protocol = "Ftp"
    /\ Len(probes) = 1
    /\ probes[1].backend = "smb"
    /\ probes[1].status = "ok"
    /\ cm_client /= <<>>
    /\ cm_client[1].backend = "smb"

\* C9 as stated: when both probes fail the returned error carries the SMB
\* cause and the FTP cause.
C9_ErrorCarriesBothCauses ==
    BothProbesFailed =>
        {probes[1].cause, probes[2].cause} \subseteq cm_ret.err.causes

\* C9, amended: when both probes fail connect returns the fixed error
\* "Failed to connect to file server via both SMB and FTP", which carries
\* neither cause; the SMB cause and then the FTP cause are written to
\* standard error only.
C9_GenericErrorCausesLogged ==
    BothProbesFailed =>
        /\ cm_ret.err = BothFailed
        /\ cm_ret.err.causes = {}
        /\ cm_client = <<>>
        /\ stderr = << [text |-> "SMB connection failed", cause |-> probes[1].cause],
                       [text |-> "FTP connection also failed", cause |-> probes[2].cause] >>

C9_Witness ==
    /\ BothProbesFailed
    /\ probes[1].cause = "smbclient not found"
    /\ probes[2].cause = "ftp login failed"

\* C10: disconnect returns Ok in every state, also when nothing was ever
\* connected; from the moment it has taken the client the manager holds no
\* backend, and the connect that follows probes afresh, starting with SMB.
C10_DisconnectClears ==
    /\ []((cm_ret.op = "disconnect" /\ cm_pc = "idle") =>
            (cm_ret.status = "ok" /\ cm_client = <<>>))
    /\ [](cm_pc = "disconnect_wait" => cm_client = <<>>)
    /\ [][(cm_ret.op = "disconnect" /\ cm_pc = "idle" /\ cm_ret'.op = "connect") =>
            /\ cm_ret'.status /= "ok"
            /\ config.password /= <<>> =>
                 /\ cm_pc' = "smb_connect"
                 /\ probes' = <<SmbProbe(config)>>]_vars

C10_Witness ==
    /\ cm_pc = "idle"
    /\ cm_ret.op = "disconnect"
    /\ cm_ret.status = "ok"
    /\ cm_client = <<>>
    /\ next_handle > 1

\* disconnect on a manager that never connected
C10_NeverConnected ==
    /\ cm_pc = "idle"
    /\ cm_ret.op = "disconnect"
    /\ cm_ret.status = "ok"
    /\ next_handle = 1

\* ------------------------------------------------- properties: backends
\* a listing was returned
Listed == be_ret.op = "list" /\ be_ret.status = "ok"

ListedFiles == {be_ret.files[k] : k \in DOMAIN be_ret.files}

\* C15: for both backends and every path, list never returns an entry whose
\* name is "." or "..", whatever lines the server sends. FtpClient's parser
\* has no such filter, and this fails.
C15_NoDotEntries ==
    Listed => \A f \in ListedFiles : f.name /= <<".">> /\ f.name /= <<".", ".">>

\* C16: every entry returned by either backend's list(p) has a non-empty
\* name without '/', and its path is p without trailing slashes, then '/',
\* then the name. The name half fails: FtpClient joins everything after the
\* eighth field, SmbClient accepts a blank name column.
C16_NameAndPath ==
    Listed =>
        \A f \in ListedFiles :
            /\ f.name /= <<>>
            /\ ~Contains(f.name, <<"/">>)
            /\ f.path = TrimEndMatches(be_path, "/") \o <<"/">> \o f.name

\* the size column of the lines the server sent, as list reads it
FtpSizeColumns ==
    {UnwrapOr(ParseU64(SplitWhitespace(be_lines[k])[5]), 0) :
        k \in {j \in DOMAIN be_lines : Len(SplitWhitespace(be_lines[j])) >= 5}}

\* C17 as stated: every directory entry returned by either backend's
\* listing has size 0.
C17_DirectorySizeZero ==
    Listed => \A f \in ListedFiles : f.is_dir => f.size = 0

\* C17, amended: a directory entry returned by the SMB backend has size 0;
\* an entry returned by the FTP backend, directory or not, carries the size
\* column of one of the lines sent.
C17_DirectorySize ==
    Listed =>
        \A f \in ListedFiles :
            /\ be_kind = "smb" /\ f.is_dir => f.size = 0
            /\ be_kind = "ftp" => f.size \in FtpSizeColumns

\* the FTP backend returns a directory entry with the size the server
\* reported for it
C17_Witness ==
    /\ Listed
    /\ be_kind = "ftp"
    /\ \E f \in ListedFiles : f.is_dir /\ f.size = 4096

\* C18: for both backends, download with the remote file present and no
\* step failing for an outside reason creates a missing parent directory
\* and leaves exactly the remote content in the local file, replacing what
\* was there. FtpClient never creates the parent, and this fails.
C18_DownloadCreatesAndReplaces ==
    be_ret.op = "download" /\ be_ret.fault = "none" /\ be_remote /= <<>> =>
        /\ be_ret.status = "ok"
        /\ be_local.parent
        /\ be_local.file = be_remote

\* ------------------------------------------------- properties: worker calls
\* item i's future moves to position p in this step
Enters(i, p) == i \in DOMAIN pc /\ i \in DOMAIN pc' /\ pc[i] /= p /\ pc'[i] = p

SizeCall(i) == <<"size", files[i].remote>>
DownloadCall(i) == <<"download", files[i].remote>>

\* C23: for each item of a batch, size is called exactly once and before
\* any download of the item; download is called at most once and only on
\* the path that follows a successful size call; when the size call fails
\* the item's outcome is a failure, nothing else is done for it and no
\* local file exists for it.
C23_SizeThenDownload ==
    [][\A i \in DOMAIN pc \cap DOMAIN pc' :
          \* size: called when the future starts, and not before
          /\ Enters(i, "size") =>
                /\ pc[i] = "wait_size"
                /\ SizeCall(i) \notin calls
                /\ SizeCall(i) \in calls'
          /\ pc'[i] \notin {"new", "wait_size"} => SizeCall(i) \in calls'
          \* the steps after it only follow a size call that returned Ok
          /\ Enters(i, "mkdir") => pc[i] = "size"
          /\ Enters(i, "wait_download") => pc[i] = "mkdir"
          /\ Enters(i, "download") =>
                /\ pc[i] = "wait_download"
                /\ DownloadCall(i) \notin calls
                /\ DownloadCall(i) \in calls'
          /\ DownloadCall(i) \in calls' => SizeCall(i) \in calls'
          \* a failed size call ends the item
          /\ pc[i] = "size" /\ pc'[i] \notin {"size", "mkdir"} =>
                /\ pc'[i] = "err"
                /\ results' = Append(results, [item |-> i, ok |-> FALSE])
                /\ DownloadCall(i) \notin calls'
                /\ local_fs' = local_fs
          /\ pc[i] \in {"ok", "err"} => pc'[i] = pc[i]
          \* a local file is there only for an item whose download was
          \* called, that is, whose size call succeeded
          /\ mode \in {"files", "directory"}
                /\ FileName(files'[i].local) \in DOMAIN local_fs' =>
                    DownloadCall(i) \in calls'
      ]_vars

\* one item failed at its size call and was never downloaded, another was
\* downloaded
C23_Witness ==
    /\ phase = "returned"
    /\ \E i, j \in DOMAIN pc :
         /\ pc[i] = "err"
         /\ SizeCall(i) \in calls
         /\ DownloadCall(i) \notin calls
         /\ FileName(files[i].local) \notin DOMAIN local_fs
         /\ pc[j] = "ok"
         /\ FileName(files[j].local) \in DOMAIN local_fs

\* ------------------------------------------------- properties: sync order
UploadCalls == {c \in calls : c[1] = "upload"}
TransferCalls == {c \in calls : c[1] \in {"size", "download"}}

\* the download batch has returned: every future finished and was collected
BatchReturned ==
    /\ in_progress = {}
    /\ next_item > Len(files)
    /\ Len(results) = Len(files)
    /\ \A i \in DOMAIN pc : pc[i] \in {"ok", "err"}

\* C25: a sync run executes its download set through the engine with cap
\* 4; the whole batch has returned before the first upload call; uploads
\* are issued one at a time, each under the handle's lock and finished
\* before the next begins.
C25_DownloadsThenUploads ==
    [][mode = "sync" =>
          /\ phase' = "engine" => max_concurrent' = 4
          \* an upload is called with the batch returned, by the task that
          \* just took the free lock, for the head of the upload list
          /\ UploadCalls' /= UploadCalls =>
                /\ BatchReturned
                /\ phase = "upload_wait"
                /\ lock = NoHolder
                /\ lock' = MainTask
                /\ phase' = "upload"
                /\ UploadCalls' = UploadCalls \cup {<<"upload", to_upload[1].remote>>}
          /\ phase' = "upload" => lock' = MainTask
          \* no worker call follows an upload
          /\ UploadCalls /= {} => TransferCalls' = TransferCalls
          \* the upload in progress returns before the list moves on
          /\ to_upload' /= to_upload /\ phase /= "uploads" /\ phase' /= "cancelled" =>
                /\ phase = "upload"
                /\ to_upload' = Tail(to_upload)
                /\ lock' = NoHolder
      ]_vars

\* an upload is in progress after a download batch that was executed
C25_Witness ==
    /\ mode = "sync"
    /\ phase = "upload"
    /\ lock = MainTask
    /\ Len(files) > 0
    /\ BatchReturned
    /\ \E i \in DOMAIN pc : DownloadCall(i) \in calls

\* ------------------------------------------------- properties: sync uploads
\* the upload set of the run, as remote paths
UploadSet ==
    {Append(TrimEndSlash(RemoteDirArg), n) :
        n \in ToUploadNames(remote_files, local_files)}

\* the uploads still to be started
UploadsLeft == {to_upload[k].remote : k \in DOMAIN to_upload}

\* the uploads that have returned
UploadsDone ==
    {c[2] : c \in UploadCalls} \ (IF phase = "upload" THEN {to_upload[1].remote} ELSE {})

\* the uploads that left a regular file on the server: those that
\* returned Ok, and those whose error is that of QUIT, sent after the file
\* was stored
UploadsOk == {path \in UploadsDone : IsRegular(remote_fs, FileName(path))}

\* C26: in a sync run every member of the upload set is attempted exactly
\* once whatever happened to the earlier ones; a failed upload only leaves
\* the count of successful uploads lower, and the run still completes with
\* success (successful + failed = size of the upload set).
C26_UploadsAllAttempted ==
    /\ [](/\ mode = "sync" /\ phase \in {"upload_wait", "upload"} =>
             \* the attempts so far and the rest of the list make up the
             \* set, and nothing attempted is attempted again
             /\ {c[2] : c \in UploadCalls} \cup UploadsLeft = UploadSet
             /\ UploadsDone \cap UploadsLeft = {}
             /\ Len(to_upload) = Cardinality(UploadsLeft)
             /\ successful <= Cardinality(UploadsOk)
             /\ outcome = "none"
          /\ mode = "sync" /\ phase = "returned" /\ outcome = "ok" =>
             /\ UploadsDone = UploadSet
             /\ to_upload = <<>>
             /\ successful <= Cardinality(UploadsOk)
             /\ Cardinality(UploadsDone \ UploadsOk)
                   <= Cardinality(UploadSet) - successful
             /\ error = "none"
          /\ mode = "sync" /\ UploadCalls /= {} /\ phase = "returned"
                => outcome = "ok")
    \* the return of an upload counts it or not, and goes on to the next
    /\ [][mode = "sync" /\ phase = "upload" /\ phase' \notin {"upload", "cancelled"} =>
            /\ successful' \in {successful, successful + 1}
            /\ successful' = successful + 1 =>
                  IsRegular(remote_fs', FileName(to_upload[1].remote))
            /\ to_upload' = Tail(to_upload)
            /\ phase' = (IF to_upload' = <<>> THEN "returned" ELSE "upload_wait")]_vars

\* a run ended with success after two uploads, one of which failed
C26_Witness ==
    /\ mode = "sync"
    /\ phase = "returned"
    /\ outcome = "ok"
    /\ Cardinality(UploadSet) = 2
    /\ successful = 1
    /\ Cardinality(UploadsDone \ UploadsOk) = 1

\* ------------------------------------------------- properties: sync plan
ListCalls == {c \in calls : c[1] = "list"}

\* names of the files in the download batch
DownloadNames == {FileName(files[k].local) : k \in DOMAIN files}

\* names of the files uploaded or to be uploaded
UploadNames ==
    {FileName(c[2]) : c \in UploadCalls}
        \cup {FileName(to_upload[k].local) : k \in DOMAIN to_upload}

\* C27: a sync run lists the remote directory once and scans the local
\* directory once, both before any transfer; both sets are computed from
\* that listing and that scan; no file name is in both sets.
C27_OnePlan ==
    [][mode = "sync" /\ phase' /= "cancelled" =>
          \* one listing, asked for at the start
          /\ ListCalls' /= ListCalls =>
                phase = "start" /\ ListCalls = {} /\ calls = {}
          /\ remote_files' /= remote_files =>
                phase = "list" /\ remote_files = <<>> /\ calls = ListCalls
          \* one scan, after the listing and before any transfer
          /\ phase' = "scan" => phase = "list"
          /\ local_files' /= local_files =>
                phase = "scan" /\ local_files = <<>> /\ calls = ListCalls
          /\ TransferCalls' \cup UploadCalls' /= {} =>
                /\ phase' \notin {"start", "list", "scan", "plan"}
                /\ ListCalls' = {<<"list", RemoteDirArg>>}
          \* both sets come from that listing and that scan
          /\ phase' = "engine" => files' = ToDownload(remote_files', local_files')
          /\ UploadNames' \subseteq ToUploadNames(remote_files', local_files')
          /\ DownloadNames' \subseteq
                {remote_files'[k].name : k \in DOMAIN remote_files'}
          /\ UploadNames' \subseteq DOMAIN local_files'
          \* and share no name
          /\ DownloadNames' \cap UploadNames' = {}
      ]_vars

\* a run that downloaded one file is uploading another
C27_Witness ==
    /\ mode = "sync"
    /\ phase = "upload"
    /\ DownloadNames /= {}
    /\ UploadNames /= {}
    /\ \E i \in DOMAIN pc : pc[i] = "ok"
    /\ ListCalls = {<<"list", RemoteDirArg>>}

\* ------------------------------------------------- properties: termination
\* C24: for every batch, the empty one included, and every cap given to
\* ParallelDownloader::new, download_files eventually returns when every
\* backend call returns and the lock is handed out fairly. With a cap of 0
\* the stream is never polled and nothing is ever returned.
C24_EventuallyReturns == <>(phase = "returned")

\* with a cap of at least 1 the call returns, every item started
ReturnsForPositiveCap ==
    (max_concurrent >= 1) ~>
        (phase = "returned" /\ (outcome = "ok" => next_item > Len(files)))

\* ------------------------------------------------- properties: FTP parser
\* the whitespace-separated tokens of the k-th line sent
Tokens(k) == SplitWhitespace(be_lines[k])

\* the lines of nine tokens or more, in the order sent
AcceptedLines == SelectSeq(be_lines, LAMBDA l : Len(SplitWhitespace(l)) >= 9)

\* C30: the FTP listing parser accepts a line iff it has at least nine
\* whitespace-separated tokens; for an accepted line is_dir holds iff
\* token 0 starts with 'd', size is token 4 as an unsigned integer (0 when
\* it is not one), and name is tokens 8 and onward joined by single
\* spaces; a line of fewer tokens gives no entry and no error.
C30_FtpParser ==
    be_kind = "ftp" /\ be_ret.op = "list" /\ be_ret.fault = "none" =>
        /\ be_ret.status = "ok"
        /\ Len(be_ret.files) = Len(AcceptedLines)
        /\ \A k \in DOMAIN be_ret.files :
              LET tokens == SplitWhitespace(AcceptedLines[k])
                  f == be_ret.files[k]
              IN  /\ f.is_dir <=> tokens[1][1] = "d"
                  /\ tokens[5] = <<"4", "0", "9", "6">> => f.size = 4096
                  /\ tokens[5] = <<"0">> => f.size = 0
                  /\ tokens[5] = <<"x">> => f.size = 0
                  /\ f.name = Join(SubSeq(tokens, 9, Len(tokens)), <<" ">>)
                  /\ Len(tokens) = 9 => f.name = tokens[9]
                  /\ Len(tokens) = 10 => f.name = tokens[9] \o <<" ">> \o tokens[10]

\* a line whose name is written with two spaces in a row is returned with
\* a single one, its size read from the fifth field
C30_Witness ==
    /\ be_kind = "ftp"
    /\ Listed
    /\ \E k \in DOMAIN be_lines : Contains(be_lines[k], <<" ", " ">>)
    /\ \E f \in ListedFiles :
         f.name = <<"a", " ", "b">> /\ f.size = 4096 /\ ~f.is_dir

\* a line of eight tokens is skipped without an error
FtpShortLineSkipped ==
    be_kind = "ftp" /\ Listed /\ be_lines /= <<>> /\ Len(Tokens(1)) = 8 =>
        be_ret.files = <<>>

\* ------------------------------------------------- properties: connections
\* an operation of the FTP backend has returned
FtpReturned == be_kind = "ftp" /\ be_op = "done"

\* the control connection was opened and the login accepted
LoggedIn ==
    /\ \E k \in DOMAIN be_log : be_log[k] = "login"
    /\ be_ret.fault /= "login"

\* C28: every FtpClient operation opens its own control connection,
\* authenticates, does its work and issues QUIT before it returns, on
\* every path; disconnect does nothing on the network. The operations
\* return on the first error, and only get_file_size has sent QUIT by then.
C28_QuitOnEveryPath ==
    FtpReturned =>
        IF be_ret.op = "disconnect"
        THEN be_log = <<>>
        ELSE /\ Cardinality({k \in DOMAIN be_log : be_log[k] = "connect"}) = 1
             /\ LoggedIn =>
                   \E q \in DOMAIN be_log :
                       /\ be_log[q] = "quit"
                       /\ \A k \in DOMAIN be_log :
                             be_log[k] \in {"connect", "login"} => k < q

\* what does hold: an operation that returns Ok has opened one connection,
\* logged in and sent QUIT after its last command; get_file_size sends
\* QUIT whenever it has logged in; disconnect does nothing
FtpQuitWhenOk ==
    FtpReturned =>
        /\ be_ret.op = "disconnect" => be_log = <<>> /\ be_ret.status = "ok"
        /\ be_ret.op /= "disconnect" /\ be_ret.status = "ok" =>
              /\ Cardinality({k \in DOMAIN be_log : be_log[k] = "connect"}) = 1
              /\ Cardinality({k \in DOMAIN be_log : be_log[k] = "quit"}) = 1
              /\ LoggedIn
        /\ be_ret.op = "size" /\ LoggedIn => be_log[Len(be_log)] = "quit"

\* SmbClient::connect has returned
SmbConnectReturned == be_kind = "smb" /\ be_ret.op = "connect"

ShareListings == {k \in DOMAIN be_log : be_log[k] = "smbclient ls"}

\* C29 as stated: the probe for the tool comes first; with the tool absent
\* connect fails without listing the share root; otherwise it lists the
\* share root once and succeeds iff that child exits with status zero, a
\* non-zero exit giving an error with the captured standard error.
C29_ProbeThenListing ==
    SmbConnectReturned =>
        /\ be_log[1] = "smbclient --version"
        /\ IF be_ret.fault = "tool absent"
           THEN be_ret.status = "err" /\ ShareListings = {}
           ELSE /\ Cardinality(ShareListings) = 1
                /\ be_ret.status = "ok" <=>
                      be_ret.fault \notin {"ls not spawned", "ls exit non-zero"}
                /\ be_ret.fault = "ls exit non-zero" =>
                      be_ret.err = <<"SMB command failed: ", be_stderr>>

\* C29, amended: the probe comes first; when it cannot be run or exits
\* with a non-zero status, connect fails with the tool-missing error
\* without listing the share root; otherwise it lists the share root once
\* and succeeds iff that child was run and exited with status zero, a
\* non-zero exit giving an error with the captured standard error.
C29_ProbeMustSucceed ==
    SmbConnectReturned =>
        /\ be_log[1] = "smbclient --version"
        /\ IF be_ret.fault \in {"tool absent", "version exit non-zero"}
           THEN /\ be_ret.status = "err"
                /\ ShareListings = {}
                /\ be_ret.err = SmbclientNotFound
           ELSE /\ Cardinality(ShareListings) = 1
                /\ be_log[2] = "smbclient ls"
                /\ be_ret.status = "ok" <=> be_ret.fault = "none"
                /\ be_ret.fault = "ls exit non-zero" =>
                      be_ret.err = <<"SMB command failed: ", be_stderr>>

\* the listing of the share root exited with a non-zero status and its
\* standard error is in the error returned
C29_Witness ==
    /\ SmbConnectReturned
    /\ be_ret.fault = "ls exit non-zero"
    /\ be_stderr = "NT_STATUS_LOGON_FAILURE"
    /\ be_ret.status = "err"
    /\ be_ret.err[2] = "NT_STATUS_LOGON_FAILURE"


\* ------------------------------------------------- properties: glob
\* glob_match was called and has returned
GlobReturned == fn_op = "glob_match" /\ fn_ret /= <<>>

\* the name is some string followed by t / t followed by some string
NameEndsIn(name, t) ==
    \E k \in 0..Len(name) : SubSeq(name, k + 1, Len(name)) = t
NameStartsIn(name, t) ==
    \E k \in 0..Len(name) : SubSeq(name, 1, k) = t

\* the number of '*' in a pattern
Stars(pattern) == Cardinality({i \in 1..Len(pattern) : pattern[i] = "*"})

\* the rows of the pattern table a pattern has the shape of
ExtRow(pattern) ==
    Len(pattern) >= 2 /\ pattern[1] = "*" /\ pattern[2] = "."
PrefixRow(pattern) ==
    Len(pattern) >= 2 /\ pattern[Len(pattern)] = "*"
SuffixRow(pattern) ==
    Len(pattern) >= 2 /\ pattern[1] = "*"

\* C21: glob_match returns a boolean for every name and pattern and agrees
\* with the pattern table: "*" matches every name, "*.ext" exactly the names
\* ending in ".ext", "prefix*" exactly the names starting with prefix,
\* "*suffix" exactly the names ending with suffix, and any other pattern
\* only the identical name.  A pattern with at most one '*' has the shape of
\* one row (or of rows that say the same); a pattern with several is read
\* against the rows from top to bottom.
C21_GlobTable ==
    GlobReturned =>
        LET name == fn_args.filename
            pattern == fn_args.pattern
            matched == fn_ret[1]
            front == SubSeq(pattern, 1, Len(pattern) - 1)
        IN  /\ matched \in BOOLEAN
            /\ pattern = <<"*">> => matched
            /\ Stars(pattern) <= 1 =>
                  /\ ExtRow(pattern) =>
                        (matched <=> NameEndsIn(name, Tail(pattern)))
                  /\ PrefixRow(pattern) =>
                        (matched <=> NameStartsIn(name, front))
                  /\ SuffixRow(pattern) =>
                        (matched <=> NameEndsIn(name, Tail(pattern)))
                  /\ (pattern = <<>> \/ Stars(pattern) = 0
                      \/ (pattern[1] /= "*" /\ pattern[Len(pattern)] /= "*"))
                        => (matched <=> name = pattern)
            /\ pattern /= <<"*">> =>
                  IF ExtRow(pattern)
                  THEN matched <=> NameEndsIn(name, Tail(pattern))
                  ELSE IF PrefixRow(pattern)
                  THEN matched <=> NameStartsIn(name, front)
                  ELSE IF SuffixRow(pattern)
                  THEN matched <=> NameEndsIn(name, Tail(pattern))
                  ELSE matched <=> name = pattern

\* "b.a" was matched against "*.a"
C21_Witness ==
    /\ GlobReturned
    /\ fn_args.pattern = <<"*", ".", "a">>
    /\ fn_args.filename = <<"b", ".", "a">>
    /\ fn_ret[1]

\* ------------------------------------------------- properties: Config
\* C22: the serialized form of a Config has no password member, whatever the
\* password is, and reading it back gives a Config with the same server_ip,
\* username, default_protocol and configured flag and no password.
C22_PasswordNeverSerialized ==
    fn_op = "serde" =>
        /\ Len(fn_ret) >= 1 =>
              /\ \A i \in 1..Len(fn_ret[1]) : fn_ret[1][i].key /= "password"
              /\ [i \in 1..Len(fn_ret[1]) |-> fn_ret[1][i].key]
                    = <<"server_ip", "username", "default_protocol",
                        "configured">>
        /\ Len(fn_ret) = 2 =>
              /\ fn_ret[2] /= <<>>
              /\ fn_ret[2][1].server_ip = fn_args.server_ip
              /\ fn_ret[2][1].username = fn_args.username
              /\ fn_ret[2][1].default_protocol = fn_args.default_protocol
              /\ fn_ret[2][1].configured = fn_args.configured
              /\ fn_ret[2][1].password = <<>>

\* a configured Smb Config holding a password went through the round trip
C22_Witness ==
    /\ fn_op = "serde"
    /\ Len(fn_ret) = 2
    /\ fn_args.password = <<"testpass">>
    /\ fn_args.default_protocol = "Smb"
    /\ fn_args.configured

\* ------------------------------------------------- properties: SMB parser
\* smbclient ran and its output was handed to the parser
SmbOutputParsed ==
    be_kind = "smb" /\ be_ret.op = "list" /\ be_ret.fault = "none"

\* the lines that are not skipped and have an attribute token after the
\* name column, in the order sent
SmbEntryLines ==
    LET Skipped(l) ==
            \/ l = <<>>
            \/ Contains(l, BlocksOfSize)
            \/ Len(l) < NameColumn + 1
            \/ Trim(SubSeq(l, 1, NameColumn)) \in {<<".">>, <<".", ".">>}
        Entry(l) ==
            /\ ~Skipped(l)
            /\ SplitWhitespace(SubSeq(l, NameColumn + 1, Len(l))) /= <<>>
    IN  SelectSeq(be_lines, Entry)

\* the listing has one entry for each of those lines, with the name, kind,
\* size and path read from the line
SmbEntriesAsRead ==
    /\ be_ret.status = "ok"
    /\ Len(be_ret.files) = Len(SmbEntryLines)
    /\ \A k \in DOMAIN be_ret.files :
          LET l == SmbEntryLines[k]
              f == be_ret.files[k]
              tail == SplitWhitespace(SubSeq(l, NameColumn + 1, Len(l)))
          IN  /\ f.name = Trim(SubSeq(l, 1, NameColumn))
              /\ f.is_dir <=> Contains(tail[1], <<"D">>)
              /\ f.is_dir => f.size = 0
              /\ Len(tail) = 1 => f.size = 0
              /\ ~f.is_dir /\ Len(tail) > 1 /\ tail[2] = <<"7">> => f.size = 7
              /\ Len(tail) > 1 /\ tail[2] \in {<<"0">>, <<"x">>, <<"W", "e", "d">>}
                    => f.size = 0
              /\ f.path = IF be_path = <<"/">> THEN <<"/">> \o f.name
                          ELSE IF be_path = <<"/", "d", "/">>
                          THEN <<"/", "d", "/">> \o f.name
                          ELSE be_path \o <<"/">> \o f.name

\* C31: the SMB listing parser yields no entry for a line that is empty,
\* contains "blocks of size", is shorter than 36 characters or whose first 35
\* characters trim to "." or ".."; for every other line with an attribute
\* token it yields the trimmed first 35 characters as name, is_dir iff the
\* attribute token contains 'D', the next token as size (0 when it is not a
\* number and for directories) and the path composed from the base.  It
\* fails for a line whose byte 35 lies inside a character: line[..35] panics.
C31_SmbParser == SmbOutputParsed => SmbEntriesAsRead

\* the same for output in which byte 35 of every parsed line is a character
\* boundary
SmbParserOnBoundaries ==
    SmbOutputParsed /\ (\A k \in DOMAIN be_lines : ~SmbParsePanics(be_lines[k]))
        => SmbEntriesAsRead

\* a file line with a two-byte character inside the name column was parsed
SmbTwoByteNameParsed ==
    /\ SmbOutputParsed
    /\ be_ret.status = "ok"
    /\ \E f \in ListedFiles : f.name = <<"a", TwoByteChar>> /\ f.size = 7

\* ------------------------------------------------- properties: directory
\* the non-directory entries of the listing download_directory received
ListedFileEntries ==
    {remote_files[k] : k \in {j \in DOMAIN remote_files : ~remote_files[j].is_dir}}

\* download_directory got its listing and went on to the batch download
DirectoryBatchBuilt ==
    \/ phase = "engine"
    \/ phase = "returned" /\ error /= "list_files failed"

\* C32: download_directory lists the remote directory exactly once, submits
\* exactly the non-directory entries of that listing as
\* (entry.path, local_dir/entry.name) to download_files and returns one result
\* per non-directory entry; get_file_size and download_file are never called
\* for a directory entry or for anything below a subdirectory.
C32_DirectoryBatch ==
    [][mode = "directory" /\ phase' /= "cancelled" =>
          \* one listing, asked for before anything else
          /\ ListCalls' /= ListCalls => phase = "start" /\ calls = {}
          /\ ListCalls' \subseteq {<<"list", RemoteDirArg>>}
          /\ remote_files' /= remote_files => phase = "list" /\ remote_files = <<>>
          /\ DirectoryBatchBuilt' =>
                /\ ListCalls' = {<<"list", RemoteDirArg>>}
                \* the batch is the files of the listing
                /\ Len(files') = Cardinality(ListedFileEntries')
                /\ {files'[k] : k \in DOMAIN files'} =
                      {Item(f.path, <<"local", f.name>>) : f \in ListedFileEntries'}
                \* no call for a directory or below one
                /\ \A c \in TransferCalls' :
                      \E f \in ListedFileEntries' : c[2] = f.path
                /\ \A c \in TransferCalls', k \in DOMAIN remote_files' :
                      remote_files'[k].is_dir =>
                          SubSeq(c[2], 1, Len(remote_files'[k].path))
                              /= remote_files'[k].path
          /\ phase' = "returned" /\ error' /= "list_files failed" =>
                Len(results') = Cardinality(ListedFileEntries')
      ]_vars

\* a directory holding a file and a subdirectory was downloaded: one result
C32_Witness ==
    /\ mode = "directory"
    /\ phase = "returned"
    /\ \E k \in DOMAIN remote_files : remote_files[k].is_dir
    /\ Cardinality(ListedFileEntries) = 1
    /\ Len(results) = 1
    /\ Cardinality(TransferCalls) = 2

\* ------------------------------------------------- properties: wildcard
\* the path argument of a wildcard Download, held until the batch is built
WildcardPath == files[1].remote

\* the listed files whose name the last segment of the path matches, each
\* with its destination
WildcardWanted(path, listing) ==
    {Item(listing[k].path, <<"local", listing[k].name>>) :
        k \in {j \in DOMAIN listing :
                  /\ ~listing[j].is_dir
                  /\ \E head \in {SubSeq(path, 1, n) : n \in 0..Len(path)} :
                        LET pattern == SubSeq(path, Len(head) + 1, Len(path))
                        IN  /\ head = <<>> \/ head[Len(head)] = "/"
                            /\ \A i \in DOMAIN pattern : pattern[i] /= "/"
                            /\ GlobMatch(NameText(listing[j].name), pattern)}}

\* C33: for a download path containing '*' the directory listed is the part
\* of the path before the first '*' and the pattern is the last segment of
\* the path; the batch given to the engine is exactly the non-directory
\* entries of that listing whose name matches the pattern, each mapped to
\* dest/name; when no entry matches nothing is downloaded and the command
\* succeeds.
C33_WildcardBatch ==
    [][mode = "wildcard" =>
          \* the listing is asked for the part before the first '*'
          /\ ListCalls' /= ListCalls =>
                \E dir \in {SubSeq(WildcardPath, 1, n) : n \in 0..Len(WildcardPath)} :
                    /\ ListCalls' = {<<"list", dir>>}
                    /\ \A i \in DOMAIN dir : dir[i] /= "*"
                    /\ WildcardPath[Len(dir) + 1] = "*"
          \* the listing arrived: the batch, or the end of the command
          /\ phase = "wild_list" /\ error' /= "list_files failed" =>
                LET wanted == WildcardWanted(WildcardPath, remote_files')
                IN  IF wanted = {}
                    THEN /\ phase' = "returned"
                         /\ outcome' = "ok"
                         /\ TransferCalls' = {}
                         /\ local_fs' = local_fs
                    ELSE /\ phase' = "engine"
                         /\ {files'[k] : k \in DOMAIN files'} = wanted
                         /\ Len(files') = Cardinality(wanted)
          \* nothing else is transferred
          /\ phase' \in {"engine", "returned"} =>
                \A c \in TransferCalls' :
                    \E k \in DOMAIN files' : c[2] = files'[k].remote
      ]_vars

\* "/d/*.t" was given, the directory holds a.t and b, and a.t alone was
\* fetched
C33_Witness ==
    /\ mode = "wildcard"
    /\ phase = "returned"
    /\ ListCalls = {<<"list", <<"/", "d", "/">>>>}
    /\ Len(remote_files) = 2
    /\ \A k \in DOMAIN remote_files : ~remote_files[k].is_dir
    /\ Len(files) = 1
    /\ files[1].remote = <<"remote", 1>>
    /\ Len(results) = 1

\* no name matched "/d/*.x": the command ended without a transfer
WildcardNoMatch ==
    /\ mode = "wildcard"
    /\ phase = "returned"
    /\ outcome = "ok"
    /\ Len(remote_files) = 2
    /\ ListCalls = {<<"list", <<"/", "d", "/">>>>}
    /\ TransferCalls = {}
    /\ WildcardPattern(files[1].remote) = <<"*", ".", "x">>

\* ------------------------------------------------- properties: upload
\* the Upload loop is at a file: before its existence test, or in upload_file
InUploadLoop == mode = "upload" /\ phase \in {"start", "upload_cmd"}

\* C34: the upload subcommand processes every given file exactly once, in
\* argument order; a local path that does not exist is counted as failed
\* without any backend call, a failed upload does not stop the later files,
\* the lock is taken and released per file, and at the end successful +
\* failed is the number of files given.
C34_UploadLoop ==
    [][InUploadLoop =>
          LET file == to_upload[1]
              exists == FileName(file.local) \in DOMAIN local_fs
          IN  \* the files leave the list from the front, one at a time, each
              \* into one of the two counts
              /\ to_upload' \in {to_upload, Tail(to_upload)}
              /\ successful' + failed' + Len(to_upload')
                    = successful + failed + Len(to_upload)
              /\ successful' >= successful /\ failed' >= failed
              \* a path that does not exist
              /\ phase = "start" /\ ~exists =>
                    /\ to_upload' = Tail(to_upload)
                    /\ failed' = failed + 1
                    /\ calls' = calls
                    /\ lock = NoHolder /\ lock' = NoHolder
              \* a path that exists: the lock, then upload_file
              /\ phase = "start" /\ exists =>
                    /\ to_upload' = to_upload
                    /\ lock = NoHolder /\ lock' = MainTask
                    /\ calls' = calls \cup {<<"upload", file.remote>>}
              /\ phase = "upload_cmd" =>
                    /\ to_upload' = Tail(to_upload)
                    /\ lock = MainTask /\ lock' = NoHolder
                    /\ calls' = calls
                    /\ <<"upload", file.remote>> \in calls
              \* the loop goes on whatever happened to this file
              /\ IF to_upload' = <<>>
                 THEN phase' = "returned" /\ outcome' = "ok"
                 ELSE InUploadLoop'
      ]_vars

\* the loop has ended: every file is in one of the two counts
UploadTally ==
    mode = "upload" /\ phase = "returned" /\ outcome = "ok" =>
        to_upload = <<>> /\ successful + failed >= 1

\* two files were given: the first does not exist, the second was uploaded
C34_Witness ==
    /\ mode = "upload"
    /\ phase = "returned"
    /\ outcome = "ok"
    /\ failed = 1
    /\ successful = 1
    /\ Cardinality(UploadCalls) = 1
    /\ Cardinality(DOMAIN local_fs) = 1
    /\ \A c \in UploadCalls : FileName(c[2]) = 2

\* a file that was named twice was uploaded twice
UploadedTwice ==
    /\ mode = "upload"
    /\ phase = "returned"
    /\ successful = 2
    /\ Cardinality(UploadCalls) = 1

\* ------------------------------------------------- properties: publication
\* C35: a backend is published by the connection manager only after its own
\* connect probe succeeded.  When connect fails, for a missing secret or
\* after both probes failed, the manager publishes nothing and stays without
\* a client, and a later connect starts again from the secret check and the
\* SMB probe.
C35_PublishAfterProbe ==
    [][/\ \* a client appears: its own probe is the last one and succeeded
          (cm_client' /= cm_client /\ cm_client' /= <<>>) =>
              /\ cm_client = <<>>
              /\ cm_pc \in {"smb_connect", "ftp_connect"}
              /\ probes[Len(probes)].status = "pending"
              /\ probes'[Len(probes')].status = "ok"
              /\ probes'[Len(probes')].backend = cm_client'[1].backend
              /\ cm_ret' = Return("connect", "ok", cm_client', NoError)
       /\ \* a connect fails: nothing is or was published
          (ConnectStep /\ cm_ret'.status = "err") =>
              /\ cm_client = <<>> /\ cm_client' = <<>>
              /\ cm_pc' = "idle"
              /\ cm_ret'.handle = <<>>
              /\ \/ config.password = <<>> /\ probes' = <<>>
                 \/ /\ Len(probes') = 2
                    /\ \A k \in DOMAIN probes' : probes'[k].status = "err"
       /\ \* a connect without a client, a failed one before it or not,
          \* starts at the secret check and the SMB probe
          (cm_pc = "idle" /\ cm_client = <<>> /\ ConnectStep) =>
              IF config.password = <<>>
              THEN cm_ret' = Return("connect", "err", <<>>, PasswordMissing)
                      /\ probes' = <<>>
              ELSE /\ cm_pc' = "smb_connect"
                   /\ probes' = <<SmbProbe(config)>>
      ]_vars

\* a manager that had published a backend and was disconnected has failed a
\* later connect on both probes: nothing is published
C35_Witness ==
    /\ cm_pc = "idle"
    /\ cm_ret.op = "connect"
    /\ cm_ret.status = "err"
    /\ Len(probes) = 2
    /\ cm_client = <<>>
    /\ next_handle = 2

\* ------------------------------------------------- properties: FTP download
\* download_file of the FTP backend has returned
FtpDownloadReturned == be_kind = "ftp" /\ be_ret.op = "download"

\* the step at which the call failed
FailedStep == IF be_ret.status = "err" THEN be_log[Len(be_log)] ELSE "none"

\* C36: FtpClient's download creates or truncates the local file only after
\* the whole remote file has been retrieved and QUIT has succeeded; when
\* connecting, logging in, retrieving or QUIT fails the local path is left
\* exactly as it was: no file appears and an existing file is not modified.
C36_FtpDownloadFrame ==
    FtpDownloadReturned =>
        /\ FailedStep \in {"connect", "login", "retr", "read", "quit"} =>
              be_local = be_before
        /\ be_local /= be_before =>
              /\ Len(be_log) >= 6
              /\ SubSeq(be_log, 1, 6)
                    = <<"connect", "login", "retr", "read", "quit", "create">>
              /\ FailedStep /= "create"
              /\ be_remote /= <<>>

\* QUIT failed after the file was retrieved: the old local file is as it was
C36_Witness ==
    /\ FtpDownloadReturned
    /\ FailedStep = "quit"
    /\ be_remote = <<<<"n", "e", "w">>>>
    /\ be_before.file = <<<<"o", "l", "d">>>>
    /\ be_local.file = <<<<"o", "l", "d">>>>

\* ------------------------------------------------- properties: cap of one
\* item i's future has finished
Finished(i) == pc[i] \in {"ok", "err"}

\* C37: with a concurrency cap of 1 the engine runs the items strictly one
\* after another in submission order: an item's size and download calls have
\* both finished before the next item's size call starts; the result vector
\* is in submission order.
C37_CapOneSequential ==
    (max_concurrent = 1 /\ phase \in {"engine", "returned"}
        /\ mode \in {"files", "directory"}) =>
        \* one item at a time, in submission order
        /\ Cardinality(in_progress) <= 1
        /\ \A i, j \in DOMAIN pc :
              i < j /\ pc[j] /= "new" => Finished(i)
        \* no call for an item before its predecessors are done
        /\ \A j \in DOMAIN files :
              (SizeCall(j) \in calls \/ DownloadCall(j) \in calls) =>
                  \A i \in 1..(j - 1) : Finished(i)
        \* the vector: the outcomes of items 1, 2, ... in that order
        /\ \A k \in DOMAIN results :
              /\ results[k].item = k
              /\ results[k].ok <=> pc[k] = "ok"
        /\ phase = "returned" => Len(results) = Len(files)

\* three items went through a cap of 1: the second failed, the others did
\* not, and the vector says so in that order
C37_Witness ==
    /\ max_concurrent = 1
    /\ mode = "files"
    /\ phase = "returned"
    /\ Len(files) = 3
    /\ Len(results) = 3
    /\ results[1].ok /\ ~results[2].ok /\ results[3].ok

\* ------------------------------------------------- browser.rs: FileBrowser
\* entries of one listing the server returns to the browser
MaxEntries == 2
\* paths kept in selected_files
MaxPicked == 2

\* Path::components of "/": the root directory
RootPath == << <<"/">> >>

\* byte value of the characters the entry names are written with
CharCode(c) ==
    CASE c = "." -> 46
      [] c = "/" -> 47
      [] c = "B" -> 66
      [] c = "a" -> 97
      [] c = "b" -> 98
      [] c = "d" -> 100
      [] c = "t" -> 116

\* str::to_lowercase
ToLowercase(s) == [i \in 1..Len(s) |-> IF s[i] = "B" THEN "b" ELSE s[i]]

\* Ord::cmp on integers: -1 (Less), 0 (Equal), 1 (Greater)
IntCmp(a, b) == IF a < b THEN -1 ELSE IF a > b THEN 1 ELSE 0

\* Ord::cmp on strings: byte-wise, a proper prefix is Less
RECURSIVE StrCmp(_, _)
StrCmp(a, b) ==
    IF a = <<>> /\ b = <<>> THEN 0
    ELSE IF a = <<>> THEN -1
    ELSE IF b = <<>> THEN 1
    ELSE IF CharCode(a[1]) # CharCode(b[1])
         THEN IntCmp(CharCode(a[1]), CharCode(b[1]))
    ELSE StrCmp(Tail(a), Tail(b))

\* load_directory: name.rfind('.').map(|i| name[i + 1..])
Extension(name) ==
    LET dots == {i \in 1..Len(name) : name[i] = "."}
    IN  IF dots = {} THEN <<>>
        ELSE LET i == CHOOSE k \in dots : \A j \in dots : j <= k
             IN  << SubSeq(name, i + 1, Len(name)) >>

\* load_directory: the FileEntry made of one RemoteFile
FileEntryOf(rf) ==
    [name |-> rf.name, path |-> rf.path, size |-> rf.size,
     modified |-> rf.modified, is_dir |-> rf.is_dir,
     extension |-> IF rf.is_dir THEN <<>> ELSE Extension(rf.name)]

\* sort_entries: the comparator handed to sort_by
EntryCmp(a, b, by, reverse) ==
    IF a.is_dir # b.is_dir
    THEN (IF a.is_dir THEN -1 ELSE 1)
    ELSE LET a_ext == IF a.extension = <<>> THEN <<>> ELSE a.extension[1]
             b_ext == IF b.extension = <<>> THEN <<>> ELSE b.extension[1]
             ordering ==
                 CASE by = "Modified" -> IntCmp(b.modified, a.modified)
                   [] by = "Name" ->
                        StrCmp(ToLowercase(a.name), ToLowercase(b.name))
                   [] by = "Size" -> IntCmp(b.size, a.size)
                   [] by = "Type" -> StrCmp(a_ext, b_ext)
         IN  IF reverse THEN 0 - ordering ELSE ordering

\* sort_by is stable: x goes behind every element that is not Greater
RECURSIVE InsertEntry(_, _, _, _)
InsertEntry(x, sorted, by, reverse) ==
    IF sorted = <<>> THEN <<x>>
    ELSE IF EntryCmp(sorted[1], x, by, reverse) <= 0
         THEN <<sorted[1]>> \o InsertEntry(x, Tail(sorted), by, reverse)
    ELSE <<x>> \o sorted

\* FileBrowser::sort_entries
RECURSIVE SortEntries(_, _, _)
SortEntries(es, by, reverse) ==
    IF es = <<>> THEN <<>>
    ELSE InsertEntry(es[Len(es)],
                     SortEntries(SubSeq(es, 1, Len(es) - 1), by, reverse),
                     by, reverse)

\* SortMode::next
SortModeNext(by) ==
    CASE by = "Modified" -> "Name"
      [] by = "Name" -> "Size"
      [] by = "Size" -> "Type"
      [] by = "Type" -> "Modified"

\* Path::parent, as an Option: none for the empty path and for the root
PathParent(p) ==
    IF p = <<>> \/ p = RootPath THEN <<>>
    ELSE << SubSeq(p, 1, Len(p) - 1) >>

\* the path a backend gives the entry called name of the directory base:
\* both join base and name, FtpClient in list_files (the bare name that
\* parse_list_line stored is overwritten), SmbClient in parse_list_line
ListedPath(kind, base, name) == base \o <<name>>

\* what the server keeps under one name: a directory and two files
ServerFiles ==
    {[name |-> <<"d">>, size |-> 0, is_dir |-> TRUE],
     [name |-> <<"a", ".", "t">>, size |-> 2, is_dir |-> FALSE],
     [name |-> <<"B">>, size |-> 1, is_dir |-> FALSE]}

\* the listings list_files can return for path: distinct names, in any order;
\* modified is Local::now() at the moment the line is parsed, so that an
\* entry is newer than the entries listed before it;
\* the server keeps its directories at the root, so that a path of more than
\* one component holds files only
BrowserListings(kind, path) ==
    LET here == {f \in ServerFiles : f.is_dir => Len(path) <= 1}
        seqs == UNION {[1..n -> here] : n \in 0..MaxEntries}
    IN  {[i \in 1..Len(s) |->
             [name |-> s[i].name,
              path |-> ListedPath(kind, path, s[i].name),
              size |-> s[i].size, modified |-> i,
              is_dir |-> s[i].is_dir]] :
         s \in {t \in seqs : \A i, j \in 1..Len(t) : t[i] = t[j] => i = j}}

\* FileBrowser::load_directory, up to the lock: Handle::block_on panics
\* where the calling thread is driving the runtime, before the async block
\* is polled and the lock touched; otherwise the thread is inside block_on
\* and waits for client.lock(). first tells the load of run from the load
\* of a key handler
LoadDirectory(first) ==
    /\ \E res \in {"block_on", "panic"} :
          br_pc' = IF res = "panic" THEN "panicked"
                   ELSE IF first THEN "first_wait" ELSE "wait"
    /\ UNCHANGED <<entries, lock>>

\* load_directory: client.lock().await inside block_on; the thread waits
\* while another user of the handle holds the lock
LoadDirectoryLock ==
    /\ br_pc \in {"first_wait", "wait"}
    /\ TryLock(MainTask)
    /\ br_pc' = IF br_pc = "first_wait" THEN "first_list" ELSE "list"
    /\ UNCHANGED <<current_path, entries, selected, sort_mode, reverse_sort,
                   selected_files, dlVars, cmVars, beVars, fnVars, sideVars>>

\* load_directory: list_files(current_path) returns under the guard, the
\* guard is dropped at the end of the async block, and then the entries
\* are replaced and sorted, or the error is passed on with ?: run returns
\* it, the loop of run prints that of a key handler and goes on
LoadDirectoryReturn ==
    /\ br_pc \in {"first_list", "list"}
    /\ lock = MainTask
    /\ DropGuard
    /\ \E res \in {"ok", "err"} :
        \/ /\ res = "ok"
           /\ \E l \in BrowserListings(be_kind, current_path) :
                  entries' = SortEntries([i \in 1..Len(l) |-> FileEntryOf(l[i])],
                                         sort_mode, reverse_sort)
           /\ br_pc' = "running"
        \/ /\ res = "err"
           /\ entries' = entries
           /\ br_pc' = IF br_pc = "first_list" THEN "returned" ELSE "running"
    /\ UNCHANGED <<current_path, selected, sort_mode, reverse_sort,
                   selected_files, dlVars, cmVars, beVars, fnVars, sideVars>>

\* another task that was given the handle locks the client for a call of
\* its own, and unlocks it
HandleUserLock ==
    /\ br_pc \notin {"none", "returned", "panicked"}
    /\ TryLock(UserTask)
    /\ UNCHANGED <<dlVars, cmVars, beVars, fnVars, brVars, sideVars>>

HandleUserUnlock ==
    /\ lock = UserTask
    /\ DropGuard
    /\ UNCHANGED <<dlVars, cmVars, beVars, fnVars, brVars, sideVars>>

\* FileBrowser::run, up to its loop: the first load_directory
BrowserRun ==
    /\ br_pc = "new"
    /\ LoadDirectory(TRUE)
    /\ UNCHANGED <<current_path, selected, sort_mode, reverse_sort,
                   selected_files, dlVars, cmVars, beVars, fnVars, sideVars>>

\* mutant: the index moves without the clamp
MoveSelectionUnclamped(delta) ==
    IF entries = <<>> THEN selected
    ELSE IF selected + delta < 0 THEN 0 ELSE selected + delta

\* FileBrowser::move_selection: the new value of selected
MoveSelection(delta) ==
    IF entries = <<>> THEN selected
    ELSE LET moved == selected + delta
             low == IF moved > 0 THEN moved ELSE 0
         IN  IF low < Len(entries) - 1 THEN low ELSE Len(entries) - 1

\* handle_input: move_selection(delta) for one key event
BrowserMoveBy(delta) ==
    /\ br_pc = "running"
    /\ selected' = MoveSelection(delta)
    /\ UNCHANGED <<br_pc, current_path, entries, sort_mode, reverse_sort,
                   selected_files, dlVars, lock, cmVars, beVars, fnVars, sideVars>>

\* handle_input: KeyCode::Up is move_selection(-1), KeyCode::Down is
\* move_selection(1)
BrowserMove == BrowserMoveBy(-1) \/ BrowserMoveBy(1)

\* entries.get(selected), as an Option
Highlighted ==
    IF selected < Len(entries) THEN << entries[selected + 1] >> ELSE <<>>

\* handle_input: KeyCode::Enter, FileBrowser::enter_selected; a file is
\* only printed
BrowserEnter ==
    /\ br_pc = "running"
    /\ IF Highlighted # <<>> /\ Highlighted[1].is_dir
       THEN /\ current_path' = Highlighted[1].path
            /\ selected' = 0
            /\ LoadDirectory(FALSE)
       ELSE UNCHANGED <<br_pc, current_path, entries, selected, lock>>
    /\ UNCHANGED <<sort_mode, reverse_sort, selected_files, dlVars,
                   cmVars, beVars, fnVars, sideVars>>

\* mutant: the path is pushed whether or not the list holds it
ToggleSelectionPush(picked, path) == Append(picked, path)

\* FileBrowser::toggle_selection on the list picked for the path of the
\* highlighted entry: retain the others, or push
ToggleSelection(picked, path) ==
    IF \E i \in 1..Len(picked) : picked[i] = path
    THEN SelectSeq(picked, LAMBDA p : p # path)
    ELSE Append(picked, path)

\* handle_input: KeyCode::Char(' ')
BrowserToggle ==
    /\ br_pc = "running"
    /\ (Highlighted # <<>>
        => Len(ToggleSelection(selected_files, Highlighted[1].path))
               <= MaxPicked)
    /\ selected_files' =
           IF Highlighted = <<>> THEN selected_files
           ELSE ToggleSelection(selected_files, Highlighted[1].path)
    /\ UNCHANGED <<br_pc, current_path, entries, selected, sort_mode,
                   reverse_sort, dlVars, lock, cmVars, beVars, fnVars, sideVars>>

\* handle_input: KeyCode::Char('s'), FileBrowser::cycle_sort_mode
BrowserCycleSort ==
    /\ br_pc = "running"
    /\ sort_mode' = SortModeNext(sort_mode)
    /\ entries' = SortEntries(entries, sort_mode', reverse_sort)
    /\ UNCHANGED <<br_pc, current_path, selected, reverse_sort, selected_files,
                   dlVars, lock, cmVars, beVars, fnVars, sideVars>>

\* handle_input: KeyCode::Char('r'), FileBrowser::toggle_reverse_sort
BrowserReverseSort ==
    /\ br_pc = "running"
    /\ reverse_sort' = ~reverse_sort
    /\ entries' = SortEntries(entries, sort_mode, reverse_sort')
    /\ UNCHANGED <<br_pc, current_path, selected, sort_mode, selected_files,
                   dlVars, lock, cmVars, beVars, fnVars, sideVars>>

\* handle_input: KeyCode::Backspace, FileBrowser::go_up
BrowserGoUp ==
    /\ br_pc = "running"
    /\ IF current_path # RootPath /\ PathParent(current_path) # <<>>
       THEN /\ current_path' = PathParent(current_path)[1]
            /\ selected' = 0
            /\ LoadDirectory(FALSE)
       ELSE UNCHANGED <<br_pc, current_path, entries, selected, lock>>
    /\ UNCHANGED <<sort_mode, reverse_sort, selected_files, dlVars,
                   cmVars, beVars, fnVars, sideVars>>

\* handle_input: 'q' or Esc ends the loop of run
BrowserQuit ==
    /\ br_pc = "running"
    /\ br_pc' = "returned"
    /\ UNCHANGED <<current_path, entries, selected, sort_mode, reverse_sort,
                   selected_files, dlVars, lock, cmVars, beVars, fnVars, sideVars>>

\* ------------------------------------------------- specification: browser
\* the paths the browser is started at
StartPaths == {RootPath, RootPath \o << <<"d">> >>}

\* FileBrowser::new over a connected client of either backend
InitBrowser ==
    /\ br_pc = "new"
    /\ current_path \in StartPaths
    /\ entries = <<>>
    /\ selected = 0
    /\ sort_mode = "Modified"
    /\ reverse_sort = FALSE
    /\ selected_files = <<>>
    /\ be_kind \in {"ftp", "smb"}
    /\ be_op = "idle"
    /\ be_path = <<>>
    /\ be_lines = <<>>
    /\ be_remote = <<>>
    /\ be_local = [parent |-> TRUE, file |-> <<>>]
    /\ be_before = be_local
    /\ be_ret = NoBackendReturn
    /\ be_log = <<>>
    /\ be_stderr = ""
    /\ lock = NoHolder
    /\ DlQuiet
    /\ CmQuiet
    /\ FnQuiet

NextBrowser ==
    \/ BrowserRun
    \/ LoadDirectoryLock
    \/ LoadDirectoryReturn
    \/ HandleUserLock
    \/ HandleUserUnlock
    \/ BrowserMove
    \/ BrowserEnter
    \/ BrowserToggle
    \/ BrowserCycleSort
    \/ BrowserReverseSort
    \/ BrowserGoUp
    \/ BrowserQuit

SpecBrowser == InitBrowser /\ [][NextBrowser]_vars

\* ------------------------------------------------- properties: browser, lock
\* list_files of the browser runs under the lock, and the browser holds
\* the lock at no other time
ListingUnderLock ==
    (br_pc \in {"first_list", "list"}) <=> (lock = MainTask)

\* Enter has written the new path and the index, and the browser waits in
\* block_on for the lock that another user of the handle holds
BrowserWaitsForLock ==
    /\ br_pc = "wait"
    /\ lock = UserTask
    /\ current_path # RootPath
    /\ selected = 0
    /\ entries # <<>>
    /\ \A i \in 1..Len(entries) : entries[i].path # current_path \o <<entries[i].name>>

\* ------------------------------------------------- properties: browser, toggle
\* the paths selected_files holds
PickedPaths(picked) == {picked[i] : i \in 1..Len(picked)}

\* picked without path keeps the order of the paths it still holds
KeptInOrder(before, after, path) ==
    /\ Len(after) = Cardinality(PickedPaths(before) \ {path})
    /\ \A i, j \in 1..Len(before) :
           (i < j /\ before[i] # path /\ before[j] # path)
           => \E k, l \in 1..Len(after) :
                  k < l /\ after[k] = before[i] /\ after[l] = before[j]

\* toggle_selection applied twice for the highlighted entry
ToggledTwice ==
    ToggleSelection(ToggleSelection(selected_files, Highlighted[1].path),
                    Highlighted[1].path)

\* no path is held twice
NoPathTwice ==
    \A i, j \in 1..Len(selected_files) :
        selected_files[i] = selected_files[j] => i = j

\* a step that changes selected_files is a toggle for the highlighted
\* entry: an absent path is added at the end, a present one is removed
ToggleStep ==
    selected_files' # selected_files
    => /\ br_pc = "running"
       /\ Highlighted # <<>>
       /\ LET p == Highlighted[1].path
          IN  IF p \in PickedPaths(selected_files)
              THEN /\ p \notin PickedPaths(selected_files')
                   /\ KeptInOrder(selected_files, selected_files', p)
              ELSE /\ Len(selected_files') = Len(selected_files) + 1
                   /\ selected_files'[Len(selected_files')] = p
                   /\ SubSeq(selected_files', 1, Len(selected_files))
                          = selected_files

\* C38, as stated: toggling the highlighted entry twice gives back the
\* list selected_files as it was.
C38_TwiceRestoresList ==
    Highlighted # <<>> => ToggledTwice = selected_files

\* C38: toggle_selection adds the path of the highlighted entry at the end of
\* selected_files when the list does not hold it and removes it when it
\* does, nothing else changes the list, and the list never holds a path
\* twice; toggling the same entry twice gives back the same set of paths, and
\* the same list when the path was absent or was the last of the list,
\* while a path held before the last position is moved to the end.
C38_ToggleSelection ==
    /\ [](/\ NoPathTwice
          /\ Highlighted # <<>>
             => LET p == Highlighted[1].path
                    n == Len(selected_files)
                IN  /\ PickedPaths(ToggledTwice) = PickedPaths(selected_files)
                    /\ Len(ToggledTwice) = n
                    /\ (p \notin PickedPaths(selected_files)
                        \/ selected_files[n] = p)
                       => ToggledTwice = selected_files
                    /\ p \in PickedPaths(selected_files)
                       => /\ ToggledTwice[n] = p
                          /\ KeptInOrder(selected_files,
                                         SubSeq(ToggledTwice, 1, n - 1), p))
    /\ [][ToggleStep]_vars

\* two paths are picked and the highlighted entry is the first of them: a
\* second pair of toggles moves it behind the other
C38_Witness ==
    /\ br_pc = "running"
    /\ Len(selected_files) = 2
    /\ Highlighted # <<>>
    /\ selected_files[1] = Highlighted[1].path
    /\ ToggledTwice = <<selected_files[2], selected_files[1]>>

\* a path was picked and then removed again while another stayed
PickedOneLeft ==
    /\ br_pc = "running"
    /\ Len(selected_files) = 1
    /\ Highlighted # <<>>
    /\ Highlighted[1].path \notin PickedPaths(selected_files)
    /\ Len(entries) = 2

\* ------------------------------------------------- properties: browser, index
\* the highlighted index is one of the list, and 0 while the list is empty
IndexInList ==
    IF entries = <<>> THEN selected = 0
    ELSE selected \in 0..(Len(entries) - 1)

\* a step of enter_selected on a highlighted directory
EnteredDirectory ==
    /\ Highlighted # <<>>
    /\ Highlighted[1].is_dir
    /\ BrowserEnter

\* a step of go_up away from a path that has a parent
WentUp ==
    /\ current_path # RootPath
    /\ PathParent(current_path) # <<>>
    /\ BrowserGoUp

\* C39: the highlighted index is within 0..len-1 whenever the entry list is
\* not empty; an Up key moves it one down to 0 at the least and leaves it
\* at 0, a Down key moves it one up to len-1 at the most and leaves it at the
\* last index, neither changes it while the list is empty; entering a
\* directory or going up to the parent sets it to 0.
C39_IndexInBounds ==
    /\ [](br_pc # "none" => IndexInList)
    /\ [][/\ BrowserMoveBy(-1)
             => selected' = (IF entries = <<>> \/ selected = 0
                             THEN selected ELSE selected - 1)
          /\ BrowserMoveBy(1)
             => selected' = (IF entries = <<>>
                                \/ selected = Len(entries) - 1
                             THEN selected ELSE selected + 1)
          /\ selected' = 0 \/ ~(EnteredDirectory \/ WentUp)]_vars

\* the last of two entries is highlighted in the root, to which the
\* browser came up from the directory where it had picked a file
C39_Witness ==
    /\ br_pc = "running"
    /\ current_path = RootPath
    /\ Len(entries) = 2
    /\ selected = 1
    /\ \E k \in DOMAIN selected_files :
          Len(selected_files[k]) = Len(RootPath) + 2

\* the browser stopped in load_directory on the way into a directory, the
\* index already at 0
EnterPanicked ==
    /\ br_pc = "panicked"
    /\ current_path # RootPath
    /\ entries # <<>>
    /\ selected = 0
    /\ selected_files # <<>>

====
